---- MODULE Spec2Model ----
(***************************************************************************)
(* rust2go: lexer, recursive-descent parser, semantic checker, AST->IR     *)
(* lowering and the CLI driver, as a state machine.                        *)
(*                                                                         *)
(* Text is a sequence of one-character strings (runes).  Rune 0 is NUL.    *)
(* A token literal is the sequence of runes cut out of the input.          *)
(***************************************************************************)
EXTENDS Integers, Sequences, FiniteSets, TLC

VARIABLES
  pc,        \* position of the caller in the pipeline
  input,     \* Lexer.input / Lexer.runes
  lx,        \* the Lexer's scanning fields (pos, readPos, ch, line, col, tokens, err)
  lexOut,    \* what Lex returned: tokens, err, or a run-time panic
  toks,      \* tokenStreamImpl.tokens of the Parser
  parsed,    \* what ParseFile returned: crate, errors, or a run-time panic
  semErrs,   \* what Check returned
  irModule,  \* the Transformer's module, which Transform returns
  goCode,    \* the Generator's builder, which Generate returns
  cli        \* the CLI process: stages run so far, file written, exit code

vars == <<pc, input, lx, lexOut, toks, parsed, semErrs, irModule, goCode, cli>>

(***************************************************************************)
(* Bounds of the model                                                     *)
(***************************************************************************)
MaxLen == 4
MaxFrags == 3
MaxRawToks == 3

MaxCommentFrags == 4

MaxOps == 2

MaxRelexLen == 2

(***************************************************************************)
(* Runes and character classes (unicode.IsLetter / IsDigit / IsSpace)      *)
(***************************************************************************)
NUL == "NUL"

Letters ==
  {"a","b","c","d","e","f","g","h","i","j","k","l","m","n","o","p","q","r","s","t",
   "u","v","w","x","y","z",
   "A","B","C","D","E","F","G","H","I","J","K","L","M","N","O","P","Q","R","S","T",
   "U","V","W","X","Y","Z"}

Digits == {"0","1","2","3","4","5","6","7","8","9"}

Spaces == {" ", "\n", "\t", "\r"}

IdentChars == Letters \cup Digits \cup {"_"}

(***************************************************************************)
(* Static tables of the lexer                                              *)
(***************************************************************************)
Keywords ==
  {
    <<"a","s">>, <<"b","r","e","a","k">>, <<"c","o","n","s","t">>,
    <<"c","o","n","t","i","n","u","e">>, <<"c","r","a","t","e">>, <<"e","l","s","e">>,
    <<"e","n","u","m">>, <<"e","x","t","e","r","n">>, <<"f","a","l","s","e">>, <<"f","n">>,
    <<"f","o","r">>, <<"i","f">>, <<"i","m","p","l">>, <<"i","n">>, <<"l","e","t">>,
    <<"l","o","o","p">>, <<"m","a","t","c","h">>, <<"m","o","d">>, <<"m","o","v","e">>,
    <<"m","u","t">>, <<"p","u","b">>, <<"r","e","f">>, <<"r","e","t","u","r","n">>,
    <<"s","e","l","f">>, <<"S","e","l","f">>, <<"s","t","a","t","i","c">>,
    <<"s","t","r","u","c","t">>, <<"s","u","p","e","r">>, <<"t","r","a","i","t">>,
    <<"t","r","u","e">>, <<"t","y","p","e">>, <<"u","n","s","a","f","e">>, <<"u","s","e">>,
    <<"w","h","e","r","e">>, <<"w","h","i","l","e">>, <<"a","s","y","n","c">>,
    <<"a","w","a","i","t">>, <<"d","y","n">>, <<"a","b","s","t","r","a","c","t">>,
    <<"b","e","c","o","m","e">>, <<"b","o","x">>, <<"d","o">>, <<"f","i","n","a","l">>,
    <<"m","a","c","r","o">>, <<"o","v","e","r","r","i","d","e">>, <<"p","r","i","v">>,
    <<"t","r","y">>, <<"t","y","p","e","o","f">>, <<"u","n","s","i","z","e","d">>,
    <<"v","i","r","t","u","a","l">>, <<"y","i","e","l","d">>
  }

Operators ==
  {<<"+">>, <<"-">>, <<"*">>, <<"/">>, <<"%">>, <<"=">>, <<"=","=">>, <<"!","=">>,
   <<"<">>, <<">">>, <<"<","=">>, <<">","=">>, <<"&","&">>, <<"|","|">>, <<"-",">">>}

Punctuations ==
  {<<"{">>, <<"}">>, <<"(">>, <<")">>, <<"[">>, <<"]">>, <<";">>, <<",">>, <<":">>,
   <<":",":">>, <<".">>, <<".",".">>}

(***************************************************************************)
(* Lexer                                                                   *)
(*                                                                         *)
(* A lexer value L is the record of the Lexer's fields.  L.cap is the      *)
(* capacity of the rune buffer made by []rune(input): the run time rounds  *)
(* the allocation up, so cap >= len, and an index in len..cap-1 reads a    *)
(* zeroed rune while a slice bound above cap panics.                       *)
(***************************************************************************)
NoErr == "none"

Token(type, subtype, lit, line, col) ==
  [type |-> type, subtype |-> subtype, lit |-> lit, line |-> line, col |-> col]

NewLexer ==
  [pos |-> 0, readPos |-> 0, ch |-> NUL, line |-> 1, col |-> 0,
   tokens |-> <<>>, err |-> NoErr, cap |-> 0, panic |-> FALSE]

\* readChar that counts the column on across a line feed
readChar_KeepCol(s, L) ==
  LET c == IF L.readPos >= Len(s) THEN NUL ELSE s[L.readPos + 1]
  IN  [L EXCEPT !.ch = c, !.pos = L.readPos, !.readPos = L.readPos + 1,
                !.line = IF c = "\n" THEN L.line + 1 ELSE L.line,
                !.col = L.col + 1]

readChar(s, L) ==
  LET c == IF L.readPos >= Len(s) THEN NUL ELSE s[L.readPos + 1]
  IN  [L EXCEPT !.ch = c, !.pos = L.readPos, !.readPos = L.readPos + 1,
                !.line = IF c = "\n" THEN L.line + 1 ELSE L.line,
                !.col = IF c = "\n" THEN 0 ELSE L.col + 1]

peek(s, L) ==
  IF L.readPos >= Len(s) THEN NUL ELSE s[L.readPos + 1]

peekN(s, L, n) ==
  LET idx == L.readPos + n - 1
  IN  IF idx >= Len(s) \/ idx < 0 THEN NUL ELSE s[idx + 1]

\* the slice taken up to the read-ahead index, l.runes[start:l.readPos]
runesFrom_ToReadPos(s, L, start) ==
  [i \in 1..(L.readPos - start) |-> IF start + i <= Len(s) THEN s[start + i] ELSE NUL]

\* string(l.runes[start:l.pos]): the runes start..pos-1; past len they are zeroed
runesFrom(s, L, start) ==
  [i \in 1..(L.pos - start) |-> IF start + i <= Len(s) THEN s[start + i] ELSE NUL]

\* the slice expression l.runes[start:l.pos] panics when pos exceeds the capacity
sliceTo(L) ==
  IF L.pos > L.cap THEN [L EXCEPT !.panic = TRUE] ELSE L

\* for <class>(l.ch) { l.readChar() }
RECURSIVE readWhile(_, _, _)
readWhile(s, L, class) ==
  IF L.ch \in class THEN readWhile(s, readChar(s, L), class) ELSE L

skipWhitespace(s, L) ==
  readWhile(s, L, Spaces)

RECURSIVE skipLine(_, _)
skipLine(s, L) ==
  IF L.ch # "\n" /\ L.ch # NUL THEN skipLine(s, readChar(s, L)) ELSE L

\* a block-comment scan that ends at the first close, whatever the nesting
RECURSIVE skipBlock_NoNest(_, _, _)
skipBlock_NoNest(s, L, nest) ==
  IF L.ch # NUL /\ nest > 0
  THEN IF L.ch = "*" /\ peek(s, L) = "/"
       THEN skipBlock_NoNest(s, readChar(s, readChar(s, L)), nest - 1)
       ELSE skipBlock_NoNest(s, readChar(s, L), nest)
  ELSE L

RECURSIVE skipBlock(_, _, _)
skipBlock(s, L, nest) ==
  IF L.ch # NUL /\ nest > 0
  THEN IF L.ch = "/" /\ peek(s, L) = "*"
       THEN skipBlock(s, readChar(s, readChar(s, L)), nest + 1)
       ELSE IF L.ch = "*" /\ peek(s, L) = "/"
            THEN skipBlock(s, readChar(s, readChar(s, L)), nest - 1)
            ELSE skipBlock(s, readChar(s, L), nest)
  ELSE L

skipComment(s, L) ==
  IF L.ch = "/" /\ peek(s, L) = "/" THEN skipLine(s, L)
  ELSE IF L.ch = "/" /\ peek(s, L) = "*"
       THEN skipBlock(s, readChar(s, readChar(s, L)), 1)
       ELSE L

DigitVal(c) ==
  CASE c = "0" -> 0 [] c = "1" -> 1 [] c = "2" -> 2 [] c = "3" -> 3 [] c = "4" -> 4
    [] c = "5" -> 5 [] c = "6" -> 6 [] c = "7" -> 7 [] c = "8" -> 8 [] c = "9" -> 9

isDigitInBase(c, base) ==
  IF c \in Digits THEN DigitVal(c) < base
  ELSE base = 16 /\ c \in {"a","b","c","d","e","f","A","B","C","D","E","F"}

DigitsInBase(base) ==
  {c \in Digits \cup Letters : isDigitInBase(c, base)}

\* every reader returns [L |-> lexer after reading, lit |-> literal, ...]
readIdentifier(s, L) ==
  LET Cut(L1) == [L |-> sliceTo(L1), lit |-> runesFrom(s, L1, L.pos)]
  IN  Cut(readWhile(s, L, IdentChars))

readLifetimeOrChar(s, L) ==
  LET Char(L2) ==
        [L |-> sliceTo(L2), lit |-> runesFrom(s, L2, L.pos), type |-> "TYPE", subtype |-> "CHAR"]
      AfterName(L1) ==
        IF L1.ch = "'" THEN Char(readChar(s, L1))
        ELSE [L |-> sliceTo(L1), lit |-> runesFrom(s, L1, L.pos), type |-> "LIFETIME",
              subtype |-> ""]
  IN  AfterName(readWhile(s, readChar(s, L), IdentChars))

readNumber(s, L) ==
  LET pfx == L.ch = "0" /\ peek(s, L) \in {"b", "o", "x"}
      Cut(Lh, isFloat) ==
        [L |-> sliceTo(Lh), lit |-> runesFrom(s, Lh, L.pos),
         subtype |-> IF isFloat THEN "FLOAT" ELSE "INT"]
      Suffix(Lg, isFloat) == Cut(readWhile(s, Lg, Letters \cup Digits), isFloat)
      ExpDigits(Le) ==
        IF Le.ch \in {"+", "-"}
        THEN Suffix(readWhile(s, readChar(s, Le), Digits \cup {"_"}), TRUE)
        ELSE Suffix(readWhile(s, Le, Digits \cup {"_"}), TRUE)
      Exponent(Ld, base, frac) ==
        IF Ld.ch \in {"e", "E"} /\ base = 10 THEN ExpDigits(readChar(s, Ld))
        ELSE Suffix(Ld, frac)
      Fraction(Lc, base) ==
        IF Lc.ch = "." /\ base = 10 /\ isDigitInBase(peek(s, Lc), 10)
        THEN Exponent(readWhile(s, readChar(s, Lc), Digits \cup {"_"}), base, TRUE)
        ELSE Exponent(Lc, base, FALSE)
      IntPart(Lb, base) == Fraction(readWhile(s, Lb, DigitsInBase(base) \cup {"_"}), base)
      Prefixed(La) ==
        IntPart(readChar(s, La),
                CASE La.ch = "b" -> 2 [] La.ch = "o" -> 8 [] La.ch = "x" -> 16)
  IN  IF pfx THEN Prefixed(readChar(s, L)) ELSE IntPart(L, 10)

\* raw string body: scan to a quote followed by hashCount hashes
RECURSIVE matchHashes(_, _, _, _)
matchHashes(s, L, matched, hashCount) ==
  IF L.ch = "#" /\ matched < hashCount
  THEN matchHashes(s, readChar(s, L), matched + 1, hashCount)
  ELSE [L |-> L, matched |-> matched]

RECURSIVE rawBody(_, _, _)
rawBody(s, L, hashCount) ==
  IF L.ch = NUL THEN L
  ELSE IF L.ch = "\""
       THEN LET AfterQuote(m) ==
                  IF m.matched = hashCount THEN m.L ELSE rawBody(s, m.L, hashCount)
            IN  AfterQuote(matchHashes(s, readChar(s, L), 0, hashCount))
       ELSE rawBody(s, readChar(s, L), hashCount)

\* cooked string body: a backslash takes the next rune with it
RECURSIVE cookedBody(_, _)
cookedBody(s, L) ==
  IF L.ch # "\"" /\ L.ch # NUL
  THEN IF L.ch = "\\"
       THEN LET Escaped(L1) ==
                  IF L1.ch \in {"\n", "\r"}
                  THEN IF L1.ch = "\r" /\ peek(s, L1) = "\n"
                       THEN cookedBody(s, readChar(s, readChar(s, L1)))
                       ELSE cookedBody(s, readChar(s, L1))
                  ELSE cookedBody(s, readChar(s, L1))
            IN  Escaped(readChar(s, L))
       ELSE cookedBody(s, readChar(s, L))
  ELSE L

readString(s, L, prefix) ==
  LET start == L.pos - Len(prefix)
      raw   == prefix \in {<<"r">>, <<"b", "r">>}
      Cut(L3) == [L |-> sliceTo(L3), lit |-> runesFrom(s, L3, start), subtype |-> "STRING"]
      Closing(Lc) ==
        IF Lc.ch = "\"" THEN Cut(readChar(s, Lc))
        ELSE Cut([Lc EXCEPT !.err = "unterminated string literal"])
      AfterHashes(L1) ==
        IF raw /\ L1.ch # "\""
        THEN [L |-> [L1 EXCEPT !.err = "invalid raw string literal"], lit |-> <<>>,
              subtype |-> ""]
        ELSE IF raw THEN Cut(rawBody(s, readChar(s, L1), L1.pos - L.pos))
        ELSE Closing(cookedBody(s, readChar(s, L1)))
  IN  IF raw THEN AfterHashes(readWhile(s, L, {"#"})) ELSE AfterHashes(L)

RECURSIVE attrBody(_, _, _)
attrBody(s, L, depth) ==
  IF L.ch # NUL /\ depth > 0
  THEN attrBody(s, readChar(s, L),
                IF L.ch = "[" THEN depth + 1 ELSE IF L.ch = "]" THEN depth - 1 ELSE depth)
  ELSE [L |-> L, depth |-> depth]

readAttr(s, L) ==
  LET Cut(L3) == [L |-> sliceTo(L3), lit |-> runesFrom(s, L3, L.pos)]
      AfterBody(b) ==
        IF b.depth > 0 THEN Cut([b.L EXCEPT !.err = "unterminated attribute"]) ELSE Cut(b.L)
      AfterBang(L2) ==
        IF L2.ch # "["
        THEN [L |-> [L2 EXCEPT !.err = "invalid attribute syntax"], lit |-> <<>>]
        ELSE AfterBody(attrBody(s, readChar(s, L2), 1))
      AfterHash(L1) ==
        IF L1.ch = "!" THEN AfterBang(readChar(s, L1)) ELSE AfterBang(L1)
  IN  AfterHash(readChar(s, L))

readOpOrPunct(s, L) ==
  LET possibleThree == <<L.ch, peek(s, L), peekN(s, L, 2)>>
      possibleTwo   == <<L.ch, peek(s, L)>>
      Cut(L3) == [L |-> sliceTo(L3), lit |-> runesFrom(s, L3, L.pos)]
  IN  IF possibleThree \in Operators \cup Punctuations
      THEN Cut(readChar(s, readChar(s, readChar(s, L))))
      ELSE IF possibleTwo \in Operators \cup Punctuations
      THEN Cut(readChar(s, readChar(s, L)))
      ELSE Cut(readChar(s, L))

\* the token append at the end of nextToken
emitToken(L, tok) ==
  IF L.panic THEN L
  ELSE IF L.err = NoErr THEN [L EXCEPT !.tokens = Append(L.tokens, tok)] ELSE L

nextToken(s, L0) ==
  LET Scan(L) ==
        LET line == L.line
            col  == L.col
            Emit(r, type, subtype) == emitToken(r.L, Token(type, subtype, r.lit, line, col))
            EmitTyped(r) == emitToken(r.L, Token(r.type, r.subtype, r.lit, line, col))
            EmitString(r) == emitToken(r.L, Token("TYPE", r.subtype, r.lit, line, col))
            EmitOp(r) ==
              Emit(r, IF r.lit = <<";">> THEN "TERMINATOR"
                      ELSE IF r.lit \in Operators THEN "OPERATOR"
                      ELSE IF r.lit \in Punctuations THEN "PUNCT"
                      ELSE "ILLEGAL", "")
            AfterIdent(id) ==
              IF id.L.panic THEN id.L
              ELSE IF (id.lit = <<"r">> /\ id.L.ch \in {"\"", "#"})
                      \/ (id.lit = <<"b", "r">> /\ id.L.ch \in {"\"", "#"})
                      \/ (id.lit = <<"b">> /\ id.L.ch = "\"")
              THEN EmitString(readString(s, id.L, id.lit))
              ELSE IF id.lit = <<"b">> /\ id.L.ch = "'"
              THEN Emit(readString(s, id.L, id.lit), "TYPE", "CHAR")
              ELSE Emit(id, IF id.lit \in Keywords THEN "KEYWORD" ELSE "IDENT", "")
        IN  IF L.ch = "/" /\ peek(s, L) \in {"/", "*"} THEN skipComment(s, L)
            ELSE IF L.ch = NUL THEN L
            ELSE IF L.ch = "'" /\ (peek(s, L) \in Letters \/ peek(s, L) = "_")
            THEN EmitTyped(readLifetimeOrChar(s, L))
            ELSE IF L.ch \in Letters \/ L.ch = "_" THEN AfterIdent(readIdentifier(s, L))
            ELSE IF L.ch \in Digits THEN EmitString(readNumber(s, L))
            ELSE IF L.ch = "\"" THEN EmitString(readString(s, L, <<>>))
            ELSE IF L.ch = "'" THEN EmitTyped(readLifetimeOrChar(s, L))
            ELSE IF L.ch = "#" THEN Emit(readAttr(s, L), "ATTRIBUTE", "")
            ELSE EmitOp(readOpOrPunct(s, L))
  IN  Scan(skipWhitespace(s, L0))

\* the assignments at the head of Lex, up to and including the first readChar
LexStart(s, L, cap) ==
  readChar(s, [L EXCEPT !.pos = 0, !.readPos = 0, !.tokens = <<>>, !.err = NoErr,
                        !.ch = NUL, !.cap = cap, !.panic = FALSE])

\* the loop test of Lex
LexLooping(L) ==
  ~L.panic /\ L.err = NoErr /\ L.ch # NUL

\* Lex returning the scanned tokens as they are, with no end-of-input token
LexReturn_NoEOF(L) ==
  IF L.panic THEN [tokens |-> <<>>, err |-> NoErr, panic |-> TRUE]
  ELSE IF L.err # NoErr THEN [tokens |-> <<>>, err |-> L.err, panic |-> FALSE]
  ELSE [tokens |-> L.tokens, err |-> NoErr, panic |-> FALSE]

\* what Lex returns once its loop has ended
LexReturn(L) ==
  IF L.panic THEN [tokens |-> <<>>, err |-> NoErr, panic |-> TRUE]
  ELSE IF L.err # NoErr THEN [tokens |-> <<>>, err |-> L.err, panic |-> FALSE]
  ELSE [tokens |-> Append(L.tokens, Token("EOF", "", <<>>, L.line, L.col)),
        err |-> NoErr, panic |-> FALSE]

RECURSIVE LexLoop(_, _)
LexLoop(s, L) ==
  IF LexLooping(L) THEN LexLoop(s, nextToken(s, L)) ELSE L

\* Lex on a newly made Lexer, start to finish
Lex(s, cap) ==
  LexReturn(LexLoop(s, LexStart(s, NewLexer, cap)))

(***************************************************************************)
(* Token stream (tokenStreamImpl)                                          *)
(***************************************************************************)
Position(line, col) ==
  [line |-> line, col |-> col]

TokPos(tok) ==
  Position(tok.line, tok.col)

\* token.Token{Type: token.EOF}: the zero token, position (0, 0)
ZeroEOF == Token("EOF", "", <<>>, 0, 0)

tsPeek(ts, P) ==
  IF P.pos >= Len(ts) THEN ZeroEOF ELSE ts[P.pos + 1]

tsNext(ts, P) ==
  IF P.pos >= Len(ts) THEN P ELSE [P EXCEPT !.pos = P.pos + 1]

tsIsEOF(ts, P) ==
  tsPeek(ts, P).type = "EOF"

tsPos(ts, P) ==
  TokPos(tsPeek(ts, P))

(***************************************************************************)
(* AST nodes                                                               *)
(***************************************************************************)
Nil == [kind |-> "nil"]

IsNil(n) == n.kind = "nil"

NewCrate(pos, items) ==
  [kind |-> "Crate", pos |-> pos, items |-> items]

NewFunction(pos, name, params, ret, body) ==
  [kind |-> "Function", pos |-> pos, name |-> name, params |-> params, ret |-> ret, body |-> body]

NewStruct(pos, name, fields) ==
  [kind |-> "Struct", pos |-> pos, name |-> name, fields |-> fields]

NewParam(pos, name, typ) ==
  [kind |-> "Param", pos |-> pos, name |-> name, type |-> typ]

NewField(pos, name, typ) ==
  [kind |-> "Field", pos |-> pos, name |-> name, type |-> typ]

NewPathType(pos, path) ==
  [kind |-> "PathType", pos |-> pos, path |-> path]

NewBlock(pos, stmts) ==
  [kind |-> "Block", pos |-> pos, stmts |-> stmts]

NewLetStmt(pos, name, typ, init) ==
  [kind |-> "LetStmt", pos |-> pos, name |-> name, type |-> typ, init |-> init]

NewExprStmt(pos, expr) ==
  [kind |-> "ExprStmt", pos |-> pos, expr |-> expr]

NewLiteral(pos, lkind, val) ==
  [kind |-> "Literal", pos |-> pos, lkind |-> lkind, val |-> val]

NewBinaryExpr(pos, left, op, right) ==
  [kind |-> "BinaryExpr", pos |-> pos, left |-> left, op |-> op, right |-> right]

NewUnaryExpr(pos, op, expr) ==
  [kind |-> "UnaryExpr", pos |-> pos, op |-> op, expr |-> expr]

NewCallExpr(pos, fn, args) ==
  [kind |-> "CallExpr", pos |-> pos, func |-> fn, args |-> args]

NewBlockExpr(pos, block) ==
  [kind |-> "BlockExpr", pos |-> pos, block |-> block]

(***************************************************************************)
(* Parser.  A parser value P holds the stream cursor and the error list;   *)
(* P.panic records a run-time panic raised while parsing.                  *)
(***************************************************************************)
NewParser ==
  [pos |-> 0, errors |-> <<>>, panic |-> FALSE]

ParseError(msg, desc, tok) ==
  [msg |-> msg, desc |-> desc, tok |-> tok, pos |-> TokPos(tok)]

pError(P, msg, desc, tok) ==
  [P EXCEPT !.errors = Append(P.errors, ParseError(msg, desc, tok))]

\* expect returning the unexpected token without recording the error
expect_Silent(ts, P, typ, lit, desc) ==
  IF tsIsEOF(ts, P)
  THEN [P |-> pError(P, "expected %s but got EOF", desc, ZeroEOF), tok |-> ZeroEOF]
  ELSE LET tok   == tsPeek(ts, P)
           match == tok.type = typ /\ (lit # <<>> => tok.lit = lit)
       IN  IF ~match
           THEN [P |-> P, tok |-> tok]
           ELSE [P |-> tsNext(ts, P), tok |-> tok]

expect(ts, P, typ, lit, desc) ==
  IF tsIsEOF(ts, P)
  THEN [P |-> pError(P, "expected %s but got EOF", desc, ZeroEOF), tok |-> ZeroEOF]
  ELSE LET tok   == tsPeek(ts, P)
           match == tok.type = typ /\ (lit # <<>> => tok.lit = lit)
       IN  IF ~match
           THEN [P |-> pError(P, "expected %s (got '%s')", desc, tok), tok |-> tok]
           ELSE [P |-> tsNext(ts, P), tok |-> tok]

RECURSIVE recoverScan(_, _, _)
recoverScan(ts, P, syncs) ==
  IF tsIsEOF(ts, P) THEN P
  ELSE LET tok == tsPeek(ts, P)
       IN  IF tok.lit \in syncs THEN P
           ELSE IF tok.type = "TERMINATOR"
                   \/ (tok.type = "PUNCT" /\ tok.lit \in {<<"}">>, <<";">>})
                THEN tsNext(ts, P)
                ELSE recoverScan(ts, tsNext(ts, P), syncs)

recover(ts, P, syncs) ==
  IF Len(P.errors) = 0 THEN P ELSE recoverScan(ts, P, syncs)

RECURSIVE ParseType(_, _)
ParseType(ts, P) ==
  IF tsPeek(ts, P).lit = <<"&">>
  THEN ParseType(ts, tsNext(ts, P))
  ELSE LET e == expect(ts, P, "IDENT", <<>>, "type")
       IN  [P |-> e.P, node |-> NewPathType(TokPos(e.tok), e.tok.lit)]

\* the parameter loop of a function item
RECURSIVE parseParams(_, _, _)
parseParams(ts, P, params) ==
  IF ~tsIsEOF(ts, P) /\ ~(tsPeek(ts, P).type = "PUNCT" /\ tsPeek(ts, P).lit = <<")">>)
  THEN LET AfterType(n, t) ==
             IF tsPeek(ts, t.P).lit = <<",">>
             THEN parseParams(ts, tsNext(ts, t.P),
                              Append(params, NewParam(TokPos(n.tok), n.tok.lit, t.node)))
             ELSE [P |-> t.P,
                   list |-> Append(params, NewParam(TokPos(n.tok), n.tok.lit, t.node))]
           AfterName(n) ==
             AfterType(n, ParseType(ts, expect(ts, n.P, "PUNCT", <<":">>, ":").P))
       IN  AfterName(expect(ts, P, "IDENT", <<>>, "param name"))
  ELSE [P |-> P, list |-> params]

\* the field loop of a struct item
RECURSIVE parseFields(_, _, _)
parseFields(ts, P, fields) ==
  IF ~tsIsEOF(ts, P) /\ ~(tsPeek(ts, P).type = "PUNCT" /\ tsPeek(ts, P).lit = <<"}">>)
  THEN LET AfterType(n, t) ==
             IF tsPeek(ts, t.P).lit = <<",">>
             THEN parseFields(ts, tsNext(ts, t.P),
                              Append(fields, NewField(TokPos(n.tok), n.tok.lit, t.node)))
             ELSE [P |-> t.P,
                   list |-> Append(fields, NewField(TokPos(n.tok), n.tok.lit, t.node))]
           AfterName(n) ==
             AfterType(n, ParseType(ts, expect(ts, n.P, "PUNCT", <<":">>, ":").P))
       IN  AfterName(expect(ts, P, "IDENT", <<>>, "field name"))
  ELSE [P |-> P, list |-> fields]

\* the operator list handed to parseBinary by ParseExpr
ParseExprOps ==
  {<<"=","=">>, <<"!","=">>, <<"<">>, <<">">>, <<"+">>, <<"-">>, <<"*">>, <<"/">>, <<"%">>,
   <<"&","&">>, <<"|","|">>}

UnaryOps == {<<"-">>, <<"!">>, <<"~">>}

RECURSIVE ParseExpr(_, _)
RECURSIVE parseBinary(_, _, _), parseBinary_RightNested(_, _, _)
RECURSIVE parseUnary(_, _)
RECURSIVE parsePrimary(_, _)
RECURSIVE parseArgs(_, _, _)
RECURSIVE skipArg(_, _)
RECURSIVE ParseStmt(_, _)
RECURSIVE ParseBlock(_, _)
RECURSIVE parseStmts(_, _, _)

\* parseBinary giving the operator everything to its right as right operand
parseBinary_RightNested(ts, P, expr) ==
  IF IsNil(expr) THEN [P |-> P, node |-> Nil]
  ELSE LET opTok == tsPeek(ts, P)
           AfterRest(rest) ==
             IF IsNil(rest.node) THEN rest
             ELSE [P |-> rest.P, node |-> NewBinaryExpr(expr.pos, expr, opTok.lit, rest.node)]
           AfterRight(r) ==
             IF IsNil(r.node)
             THEN [P |-> pError(r.P, "expected expression after operator", "", tsPeek(ts, r.P)),
                   node |-> Nil]
             ELSE AfterRest(parseBinary_RightNested(ts, r.P, r.node))
       IN  IF ~(opTok.type \in {"OPERATOR", "PUNCT"}) \/ opTok.lit \notin ParseExprOps
           THEN [P |-> P, node |-> expr]
           ELSE AfterRight(parseUnary(ts, tsNext(ts, P)))

\* the loop of parseBinary, entered with the left operand parsed so far
parseBinary(ts, P, expr) ==
  IF IsNil(expr) THEN [P |-> P, node |-> Nil]
  ELSE LET opTok == tsPeek(ts, P)
           AfterRight(r) ==
             IF IsNil(r.node)
             THEN [P |-> pError(r.P, "expected expression after operator", "", tsPeek(ts, r.P)),
                   node |-> Nil]
             ELSE parseBinary(ts, r.P, NewBinaryExpr(expr.pos, expr, opTok.lit, r.node))
       IN  IF ~(opTok.type \in {"OPERATOR", "PUNCT"}) \/ opTok.lit \notin ParseExprOps
           THEN [P |-> P, node |-> expr]
           ELSE AfterRight(parseUnary(ts, tsNext(ts, P)))

ParseExpr(ts, P) ==
  LET AfterFirst(first) == parseBinary(ts, first.P, first.node)
  IN  AfterFirst(parseUnary(ts, P))

parseUnary(ts, P) ==
  LET tok == tsPeek(ts, P)
      AfterPrimary(primary) ==
        IF IsNil(primary.node) THEN primary
        ELSE [P |-> primary.P, node |-> NewUnaryExpr(TokPos(tok), tok.lit, primary.node)]
  IN  IF tok.type = "OPERATOR" /\ tok.lit \in UnaryOps
      THEN AfterPrimary(parsePrimary(ts, tsNext(ts, P)))
      ELSE parsePrimary(ts, P)

\* error recovery inside an argument list: skip to ',' or ')'
skipArg(ts, P) ==
  IF ~tsIsEOF(ts, P) /\ ~(tsPeek(ts, P).lit \in {<<",">>, <<")">>})
  THEN skipArg(ts, tsNext(ts, P))
  ELSE P

\* the argument loop of a call
parseArgs(ts, P, args) ==
  LET AfterSkip(P1, as) ==
        IF tsPeek(ts, P1).lit = <<",">>
        THEN parseArgs(ts, tsNext(ts, P1), as)
        ELSE [P |-> P1, list |-> as]
      AfterArg(arg) ==
        IF IsNil(arg.node) THEN AfterSkip(skipArg(ts, arg.P), args)
        ELSE AfterSkip(arg.P, Append(args, arg.node))
  IN  AfterArg(ParseExpr(ts, P))

parsePrimary(ts, P) ==
  LET tok  == tsPeek(ts, P)
      pos  == TokPos(tok)
      fail == [P |-> tsNext(ts, pError(P, "expected primary expression", "", tok)),
               node |-> Nil]
      fnLit == NewLiteral(pos, "IDENT", tok.lit)
      AfterArgs(a) ==
        [P |-> expect(ts, a.P, "PUNCT", <<")">>, ")").P, node |-> NewCallExpr(pos, fnLit, a.list)]
      AfterBlock(b) ==
        [P |-> b.P, node |-> NewBlockExpr(pos, b.node)]
      AfterInner(inner) ==
        [P |-> expect(ts, inner.P, "PUNCT", <<")">>, ")").P, node |-> inner.node]
  IN  CASE tok.type = "TYPE" ->
             [P |-> tsNext(ts, P), node |-> NewLiteral(pos, tok.subtype, tok.lit)]
        [] tok.type = "CHAR" ->
             [P |-> tsNext(ts, P), node |-> NewLiteral(pos, "CHAR", tok.lit)]
        [] tok.type \in {"INT", "FLOAT"} ->
             \* tok.Type.String() is unimplemented and panics
             [P |-> [tsNext(ts, P) EXCEPT !.panic = TRUE],
              node |-> NewLiteral(pos, "PANIC", tok.lit)]
        [] tok.type = "STRING" ->
             [P |-> tsNext(ts, P), node |-> NewLiteral(pos, "STRING", tok.lit)]
        [] tok.type = "KEYWORD" ->
             IF tok.lit \in {<<"t","r","u","e">>, <<"f","a","l","s","e">>}
             THEN [P |-> tsNext(ts, P), node |-> NewLiteral(pos, "BOOL", tok.lit)]
             ELSE fail
        [] tok.type = "IDENT" ->
             LET P1 == tsNext(ts, P)
                 P2 == IF tsPeek(ts, P1).lit = <<"!">> THEN tsNext(ts, P1) ELSE P1
             IN  IF tsPeek(ts, P2).type = "PUNCT" /\ tsPeek(ts, P2).lit = <<"(">>
                 THEN LET P3 == tsNext(ts, P2)
                      IN  IF tsPeek(ts, P3).type = "PUNCT" /\ tsPeek(ts, P3).lit = <<")">>
                          THEN [P |-> tsNext(ts, P3), node |-> NewCallExpr(pos, fnLit, <<>>)]
                          ELSE AfterArgs(parseArgs(ts, P3, <<>>))
                 ELSE [P |-> P2, node |-> fnLit]
        [] tok.type = "PUNCT" ->
             IF tok.lit = <<"{">> THEN AfterBlock(ParseBlock(ts, P))
             ELSE IF tok.lit = <<"(">> THEN AfterInner(ParseExpr(ts, tsNext(ts, P)))
             ELSE fail
        [] OTHER -> fail

ParseStmt(ts, P) ==
  LET tok == tsPeek(ts, P)
      AfterSemi(n, ty, init, semi) ==
        IF semi.tok.type = "EOF" THEN [P |-> semi.P, node |-> Nil]
        ELSE [P |-> semi.P,
              node |-> NewLetStmt(TokPos(tok), n.tok.lit,
                                  IF IsNil(ty.node)
                                  THEN NewPathType(Position(0, 0), <<"i","n","f","e","r">>)
                                  ELSE ty.node,
                                  init.node)]
      AfterInit(n, ty, init) ==
        IF IsNil(init.node) THEN [P |-> init.P, node |-> Nil]
        ELSE AfterSemi(n, ty, init, expect(ts, init.P, "TERMINATOR", <<";">>, ";"))
      AfterEq(n, ty, eq) ==
        IF eq.tok.type = "EOF" THEN [P |-> eq.P, node |-> Nil]
        ELSE AfterInit(n, ty, ParseExpr(ts, eq.P))
      AfterLetType(n, ty) ==
        AfterEq(n, ty, expect(ts, ty.P, "OPERATOR", <<"=">>, "="))
      AfterLetName(n) ==
        IF tsPeek(ts, n.P).lit = <<":">>
        THEN AfterLetType(n, ParseType(ts, tsNext(ts, n.P)))
        ELSE AfterLetType(n, [P |-> n.P, node |-> Nil])
      AfterExpr(expr) ==
        IF IsNil(expr.node) THEN [P |-> expr.P, node |-> Nil]
        ELSE IF tsPeek(ts, expr.P).type = "TERMINATOR"
        THEN [P |-> tsNext(ts, expr.P), node |-> NewExprStmt(expr.node.pos, expr.node)]
        ELSE IF tsPeek(ts, expr.P).lit = <<"}">>
        THEN [P |-> expr.P, node |-> NewExprStmt(expr.node.pos, expr.node)]
        ELSE [P |-> pError(expr.P, "expected ';' after expression", "", tsPeek(ts, expr.P)),
              node |-> Nil]
  IN  IF tok.lit = <<"l","e","t">>
      THEN AfterLetName(expect(ts, tsNext(ts, P), "IDENT", <<>>, "let binding name"))
      ELSE AfterExpr(ParseExpr(ts, P))

\* the statement loop of ParseBlock
parseStmts(ts, P, stmts) ==
  LET AfterStmt(stmt) ==
        IF ~IsNil(stmt.node)
        THEN parseStmts(ts, stmt.P, Append(stmts, stmt.node))
        ELSE parseStmts(ts, recover(ts, stmt.P, {<<";">>}), stmts)
  IN  IF ~tsIsEOF(ts, P) /\ tsPeek(ts, P).lit # <<"}">>
      THEN AfterStmt(ParseStmt(ts, P))
      ELSE [P |-> P, list |-> stmts]

ParseBlock(ts, P) ==
  LET AfterBody(body) ==
        [P |-> expect(ts, body.P, "PUNCT", <<"}">>, "}").P,
         node |-> NewBlock(tsPos(ts, P), body.list)]
  IN  AfterBody(parseStmts(ts, expect(ts, P, "PUNCT", <<"{">>, "{").P, <<>>))

RECURSIVE skipAttributes(_, _)
skipAttributes(ts, P) ==
  IF tsPeek(ts, P).type = "ATTRIBUTE" THEN skipAttributes(ts, tsNext(ts, P)) ELSE P

ParseItem(ts, P0) ==
  LET P   == skipAttributes(ts, P0)
      tok == tsPeek(ts, P)
      pos == TokPos(tok)
      AfterFnBody(n, ps, ret, body) ==
        [P |-> body.P, node |-> NewFunction(pos, n.tok.lit, ps.list, ret.node, body.node)]
      AfterRet(n, ps, ret) ==
        AfterFnBody(n, ps, ret, ParseBlock(ts, ret.P))
      AfterRParen(n, ps, rp) ==
        IF tsPeek(ts, rp.P).lit = <<"-",">">>
        THEN AfterRet(n, ps, ParseType(ts, tsNext(ts, rp.P)))
        ELSE AfterRet(n, ps, [P |-> rp.P, node |-> NewPathType(pos, <<"(",")">>)])
      AfterParams(n, ps) ==
        AfterRParen(n, ps, expect(ts, ps.P, "PUNCT", <<")">>, ")"))
      AfterFnName(n) ==
        AfterParams(n, parseParams(ts, expect(ts, n.P, "PUNCT", <<"(">>, "(").P, <<>>))
      AfterFields(n, fs) ==
        [P |-> expect(ts, fs.P, "PUNCT", <<"}">>, "}").P,
         node |-> NewStruct(pos, n.tok.lit, fs.list)]
      AfterStructName(n) ==
        AfterFields(n, parseFields(ts, expect(ts, n.P, "PUNCT", <<"{">>, "{").P, <<>>))
  IN  IF tok.type = "KEYWORD" /\ tok.lit = <<"f","n">>
      THEN AfterFnName(expect(ts, tsNext(ts, P), "IDENT", <<>>, "identifier after fn"))
      ELSE IF tok.type = "KEYWORD" /\ tok.lit = <<"s","t","r","u","c","t">>
      THEN AfterStructName(expect(ts, tsNext(ts, P), "IDENT", <<>>, "struct name"))
      ELSE [P |-> pError(P, "expected item (fn, struct, etc.)", "", tok), node |-> Nil]

\* the item loop of ParseCrate
RECURSIVE parseItems(_, _, _)
parseItems(ts, P, items) ==
  LET AfterItem(item) ==
        IF ~IsNil(item.node)
        THEN parseItems(ts, item.P, Append(items, item.node))
        ELSE IF tsIsEOF(ts, item.P) THEN [P |-> item.P, list |-> items]
        ELSE parseItems(ts, tsNext(ts, item.P), items)
  IN  IF ~tsIsEOF(ts, P) THEN AfterItem(ParseItem(ts, P)) ELSE [P |-> P, list |-> items]

ParseCrate(ts, P) ==
  LET AfterItems(items) == [P |-> items.P, node |-> NewCrate(tsPos(ts, P), items.list)]
  IN  AfterItems(parseItems(ts, P, <<>>))

\* NewParser(tokens).ParseFile()
ParseFile(ts) ==
  LET Result(r) ==
        IF r.P.panic THEN [panic |-> TRUE, crate |-> Nil, errors |-> <<>>]
        ELSE [panic |-> FALSE, crate |-> r.node, errors |-> r.P.errors]
  IN  Result(ParseCrate(ts, NewParser))

(***************************************************************************)
(* Semantic checker.  A checker value C holds the error list and the       *)
(* global symbol table; a scope is the local map of one function.          *)
(***************************************************************************)
Str_i32 == <<"i","3","2">>
Str_f64 == <<"f","6","4">>
Str_bool == <<"b","o","o","l">>
Str_String == <<"S","t","r","i","n","g">>
Str_str == <<"s","t","r">>
Str_unit == <<"(",")">>
Str_infer == <<"i","n","f","e","r">>

TypeInfo(name) ==
  [name |-> name]

EmptyMap == [k \in {} |-> Nil]

MapPut(m, k, v) ==
  [x \in (DOMAIN m) \cup {k} |-> IF x = k THEN v ELSE m[x]]

NewChecker ==
  [errors |-> <<>>, symbols |-> EmptyMap]

SemanticError(msg, args, pos) ==
  [msg |-> msg, args |-> args, pos |-> pos]

cError(C, msg, args, pos) ==
  [C EXCEPT !.errors = Append(C.errors, SemanticError(msg, args, pos))]

extractType(t) ==
  IF IsNil(t) THEN TypeInfo(Str_unit)
  ELSE IF t.kind = "PathType" THEN TypeInfo(t.path) ELSE TypeInfo(Str_unit)

typesCompatible(t1, t2) ==
  IF t1.name = Str_infer \/ t2.name = Str_infer THEN TRUE
  ELSE IF (t1.name = Str_str /\ t2.name = Str_String) \/ (t1.name = Str_String /\ t2.name = Str_str)
       THEN TRUE
       ELSE t1.name = t2.name

isNumeric(t) ==
  t.name \in {<<"i","3","2">>, <<"i","6","4">>, <<"f","3","2">>, <<"f","6","4">>, <<"i","8">>, <<"i","1","6">>, <<"u","8">>, <<"u","1","6">>, <<"u","3","2">>, <<"u","6","4">>}

isBool(t) ==
  t.name = Str_bool

isArithmeticOp(op) ==
  op \in {<<"+">>, <<"-">>, <<"*">>, <<"/">>, <<"%">>}

isComparisonOp(op) ==
  op \in {<<"=","=">>, <<"!","=">>, <<"<">>, <<">">>, <<"<","=">>, <<">","=">>}

isLogicalOp(op) ==
  op \in {<<"&","&">>, <<"|","|">>}

\* a name whose last byte is '!'
EndsWithBang(name) ==
  Len(name) > 0 /\ name[Len(name)] = "!"

\* registerFunction without the return after the duplicate error: the later
\* declaration replaces the symbol
registerFunction_Overwrite(C, fn) ==
  LET Put(D) ==
        [D EXCEPT !.symbols = MapPut(D.symbols, fn.name,
           [kind |-> "SymbolFunction", name |-> fn.name, type |-> extractType(fn.ret),
            pos |-> fn.pos, function |-> fn])]
  IN  IF fn.name \in DOMAIN C.symbols
      THEN Put(cError(C, "duplicate function declaration: %s", <<fn.name>>, fn.pos))
      ELSE Put(C)

registerFunction(C, fn) ==
  IF fn.name \in DOMAIN C.symbols
  THEN cError(C, "duplicate function declaration: %s", <<fn.name>>, fn.pos)
  ELSE [C EXCEPT !.symbols = MapPut(C.symbols, fn.name,
          [kind |-> "SymbolFunction", name |-> fn.name, type |-> extractType(fn.ret),
           pos |-> fn.pos, function |-> fn])]

registerStruct(C, st) ==
  IF st.name \in DOMAIN C.symbols
  THEN cError(C, "duplicate struct declaration: %s", <<st.name>>, st.pos)
  ELSE [C EXCEPT !.symbols = MapPut(C.symbols, st.name,
          [kind |-> "SymbolStruct", name |-> st.name, type |-> TypeInfo(st.name),
           pos |-> st.pos, function |-> Nil])]

RECURSIVE checkCrateDeclarations(_, _, _)
checkCrateDeclarations(C, items, i) ==
  IF i > Len(items) THEN C
  ELSE checkCrateDeclarations(
         IF items[i].kind = "Function" THEN registerFunction(C, items[i])
         ELSE IF items[i].kind = "Struct" THEN registerStruct(C, items[i])
         ELSE C,
         items, i + 1)

resolveIdentifier(C, lit, scope) ==
  LET name == lit.val
  IN  IF EndsWithBang(name) THEN [C |-> C, type |-> TypeInfo(Str_unit)]
      ELSE IF name \in DOMAIN scope THEN [C |-> C, type |-> scope[name].type]
      ELSE IF name \in DOMAIN C.symbols THEN [C |-> C, type |-> C.symbols[name].type]
      ELSE [C |-> cError(C, "undefined identifier: %s", <<name>>, lit.pos),
            type |-> TypeInfo(Str_unit)]

checkLiteral(C, lit, scope) ==
  CASE lit.lkind = "INT" -> [C |-> C, type |-> TypeInfo(Str_i32)]
    [] lit.lkind = "FLOAT" -> [C |-> C, type |-> TypeInfo(Str_f64)]
    [] lit.lkind = "STRING" -> [C |-> C, type |-> TypeInfo(Str_String)]
    [] lit.lkind = "BOOL" -> [C |-> C, type |-> TypeInfo(Str_bool)]
    [] lit.lkind = "IDENT" -> resolveIdentifier(C, lit, scope)
    [] OTHER -> [C |-> C, type |-> TypeInfo(Str_unit)]

checkBlockExpr(C, be, scope) ==
  [C |-> C, type |-> TypeInfo(Str_unit)]

RECURSIVE checkExpr(_, _, _)
RECURSIVE checkArgs(_, _, _, _)
RECURSIVE checkCallArgs(_, _, _, _, _), checkCallArgs_StopAtFirst(_, _, _, _, _)

\* the numeric test of arithmetic operators failing only when no operand is numeric
checkBinaryExpr_BothNonNumeric(C, be, scope) ==
  LET AfterRight(l, r) ==
      IF isArithmeticOp(be.op)
      THEN IF ~isNumeric(l.type) /\ ~isNumeric(r.type)
           THEN [C |-> cError(r.C, "operands of %s must be numeric", <<be.op>>, be.pos),
                 type |-> TypeInfo(Str_unit)]
           ELSE [C |-> r.C, type |-> l.type]
      ELSE IF isComparisonOp(be.op)
      THEN [C |-> IF ~typesCompatible(l.type, r.type)
                  THEN cError(r.C, "cannot compare %s with %s", <<l.type.name, r.type.name>>, be.pos)
                  ELSE r.C,
            type |-> TypeInfo(Str_bool)]
      ELSE IF isLogicalOp(be.op)
      THEN [C |-> IF ~isBool(l.type) \/ ~isBool(r.type)
                  THEN cError(r.C, "operands of %s must be boolean", <<be.op>>, be.pos)
                  ELSE r.C,
            type |-> TypeInfo(Str_bool)]
      ELSE [C |-> r.C, type |-> TypeInfo(Str_unit)]
      AfterLeft(l) == AfterRight(l, checkExpr(l.C, be.right, scope))
  IN  AfterLeft(checkExpr(C, be.left, scope))

checkBinaryExpr(C, be, scope) ==
  LET AfterRight(l, r) ==
      IF isArithmeticOp(be.op)
      THEN IF ~isNumeric(l.type) \/ ~isNumeric(r.type)
           THEN [C |-> cError(r.C, "operands of %s must be numeric", <<be.op>>, be.pos),
                 type |-> TypeInfo(Str_unit)]
           ELSE [C |-> r.C, type |-> l.type]
      ELSE IF isComparisonOp(be.op)
      THEN [C |-> IF ~typesCompatible(l.type, r.type)
                  THEN cError(r.C, "cannot compare %s with %s", <<l.type.name, r.type.name>>, be.pos)
                  ELSE r.C,
            type |-> TypeInfo(Str_bool)]
      ELSE IF isLogicalOp(be.op)
      THEN [C |-> IF ~isBool(l.type) \/ ~isBool(r.type)
                  THEN cError(r.C, "operands of %s must be boolean", <<be.op>>, be.pos)
                  ELSE r.C,
            type |-> TypeInfo(Str_bool)]
      ELSE [C |-> r.C, type |-> TypeInfo(Str_unit)]
      AfterLeft(l) == AfterRight(l, checkExpr(l.C, be.right, scope))
  IN  AfterLeft(checkExpr(C, be.left, scope))

checkUnaryExpr(C, ue, scope) ==
  LET AfterExpr(e) ==
      IF ue.op = <<"-">>
      THEN [C |-> IF ~isNumeric(e.type)
                  THEN cError(e.C, "operand of unary - must be numeric", <<>>, ue.pos)
                  ELSE e.C,
            type |-> e.type]
      ELSE IF ue.op = <<"!">>
      THEN [C |-> IF ~isBool(e.type)
                  THEN cError(e.C, "operand of unary ! must be boolean", <<>>, ue.pos)
                  ELSE e.C,
            type |-> TypeInfo(Str_bool)]
      ELSE [C |-> e.C, type |-> TypeInfo(Str_unit)]
  IN  AfterExpr(checkExpr(C, ue.expr, scope))

\* the argument loop of a macro call: every argument is checked, nothing compared
checkArgs(C, args, i, scope) ==
  IF i > Len(args) THEN C
  ELSE checkArgs(checkExpr(C, args[i], scope).C, args, i + 1, scope)

\* the argument loop of a function call: argument i against parameter i
\* the argument loop leaving at the first incompatible argument
checkCallArgs_StopAtFirst(C, ce, fn, i, scope) ==
  IF i > Len(ce.args) THEN C
  ELSE LET paramType == extractType(fn.params[i].type)
           AfterArg(a) ==
             IF ~typesCompatible(paramType, a.type)
             THEN cError(a.C, "argument %d of %s: expected %s, got %s",
                         <<i, ce.func.val, paramType.name, a.type.name>>, ce.pos)
             ELSE checkCallArgs_StopAtFirst(a.C, ce, fn, i + 1, scope)
       IN  AfterArg(checkExpr(C, ce.args[i], scope))

checkCallArgs(C, ce, fn, i, scope) ==
  IF i > Len(ce.args) THEN C
  ELSE LET paramType == extractType(fn.params[i].type)
           AfterArg(a) ==
             checkCallArgs(
               IF ~typesCompatible(paramType, a.type)
               THEN cError(a.C, "argument %d of %s: expected %s, got %s",
                           <<i, ce.func.val, paramType.name, a.type.name>>, ce.pos)
               ELSE a.C,
               ce, fn, i + 1, scope)
       IN  AfterArg(checkExpr(C, ce.args[i], scope))

checkCallExpr(C, ce, scope) ==
  IF ce.func.kind # "Literal"
  THEN [C |-> cError(C, "expected function name in call", <<>>, ce.pos),
        type |-> TypeInfo(Str_unit)]
  ELSE LET fnName == IF ce.func.lkind = "IDENT" THEN ce.func.val ELSE <<>>
       IN  IF EndsWithBang(fnName)
           THEN [C |-> checkArgs(C, ce.args, 1, scope), type |-> TypeInfo(Str_unit)]
           ELSE IF fnName \notin DOMAIN C.symbols
           THEN [C |-> cError(C, "undefined function: %s", <<fnName>>, ce.pos),
                 type |-> TypeInfo(Str_unit)]
           ELSE LET sym == C.symbols[fnName]
                IN  IF sym.kind # "SymbolFunction" \/ IsNil(sym.function)
                    THEN [C |-> cError(C, "%s is not a function", <<fnName>>, ce.pos),
                          type |-> TypeInfo(Str_unit)]
                    ELSE IF Len(ce.args) # Len(sym.function.params)
                    THEN [C |-> cError(C, "function %s expects %d arguments, got %d",
                                       <<fnName, Len(sym.function.params), Len(ce.args)>>, ce.pos),
                          type |-> TypeInfo(Str_unit)]
                    ELSE [C |-> checkCallArgs(C, ce, sym.function, 1, scope),
                          type |-> extractType(sym.function.ret)]

checkExpr(C, expr, scope) ==
  CASE expr.kind = "Literal" -> checkLiteral(C, expr, scope)
    [] expr.kind = "BinaryExpr" -> checkBinaryExpr(C, expr, scope)
    [] expr.kind = "UnaryExpr" -> checkUnaryExpr(C, expr, scope)
    [] expr.kind = "CallExpr" -> checkCallExpr(C, expr, scope)
    [] expr.kind = "BlockExpr" -> checkBlockExpr(C, expr, scope)
    [] OTHER -> [C |-> cError(C, "unsupported expression type", <<>>, expr.pos),
                 type |-> TypeInfo(Str_unit)]

Variable(name, type, pos) ==
  [kind |-> "SymbolVariable", name |-> name, type |-> type, pos |-> pos, function |-> Nil]

\* returns the checker and the scope, which the let-binding extends in place
checkLetStmt(C, ls, scope) ==
  IF ls.name \in DOMAIN scope
  THEN [C |-> cError(C, "variable %s already declared in this scope", <<ls.name>>, ls.pos),
        scope |-> scope]
  ELSE LET AfterInit(init) ==
           IF ~IsNil(ls.type)
           THEN LET declType == extractType(ls.type)
                IN  IF declType.name = Str_infer
                    THEN [C |-> init.C,
                          scope |-> MapPut(scope, ls.name, Variable(ls.name, init.type, ls.pos))]
                    ELSE [C |-> IF ~typesCompatible(declType, init.type)
                                THEN cError(init.C, "type mismatch: expected %s, got %s",
                                            <<declType.name, init.type.name>>, ls.pos)
                                ELSE init.C,
                          scope |-> MapPut(scope, ls.name, Variable(ls.name, declType, ls.pos))]
           ELSE IF init.type.name = Str_infer
                THEN [C |-> cError(init.C, "cannot infer type for variable without explicit type",
                                   <<>>, ls.pos),
                      scope |-> scope]
                ELSE [C |-> init.C,
                      scope |-> MapPut(scope, ls.name, Variable(ls.name, init.type, ls.pos))]
       IN  AfterInit(checkExpr(C, ls.init, scope))

checkStmt(C, stmt, scope) ==
  IF stmt.kind = "LetStmt" THEN checkLetStmt(C, stmt, scope)
  ELSE IF stmt.kind = "ExprStmt" THEN [C |-> checkExpr(C, stmt.expr, scope).C, scope |-> scope]
  ELSE [C |-> C, scope |-> scope]

RECURSIVE checkBlock(_, _, _, _)
checkBlock(C, block, i, scope) ==
  IF i > Len(block.stmts) THEN C
  ELSE LET AfterStmt(r) == checkBlock(r.C, block, i + 1, r.scope)
       IN  AfterStmt(checkStmt(C, block.stmts[i], scope))

\* the parameter loop of checkFunction
RECURSIVE paramScope(_, _, _)
paramScope(params, i, scope) ==
  IF i > Len(params) THEN scope
  ELSE LET pt == extractType(params[i].type)
           paramType == IF pt.name = Str_str THEN TypeInfo(Str_String) ELSE pt
       IN  paramScope(params, i + 1,
                      MapPut(scope, params[i].name,
                             Variable(params[i].name, paramType, params[i].pos)))

checkFunction(C, fn) ==
  checkBlock(C, fn.body, 1, paramScope(fn.params, 1, EmptyMap))

RECURSIVE checkCrateDefinitions(_, _, _)
checkCrateDefinitions(C, items, i) ==
  IF i > Len(items) THEN C
  ELSE checkCrateDefinitions(
         IF items[i].kind = "Function" THEN checkFunction(C, items[i]) ELSE C,
         items, i + 1)

\* Check with the two passes in the other order
Check_BodiesFirst(crate) ==
  checkCrateDeclarations(checkCrateDefinitions(NewChecker, crate.items, 1), crate.items, 1).errors

\* Check on a newly made Checker
Check(crate) ==
  checkCrateDefinitions(checkCrateDeclarations(NewChecker, crate.items, 1), crate.items, 1).errors

(***************************************************************************)
(* IR and lowering (Transformer)                                           *)
(***************************************************************************)
\* the table with i32 lowered to the sized int32
MapRustToGoType_I32AsInt32(rustType) ==
  CASE rustType = <<"i","8">> -> <<"i","n","t","8">>
    [] rustType = <<"i","1","6">> -> <<"i","n","t","1","6">>
    [] rustType = <<"i","3","2">> -> <<"i","n","t","3","2">>
    [] rustType = <<"i","6","4">> -> <<"i","n","t","6","4">>
    [] rustType = <<"u","8">> -> <<"u","i","n","t","8">>
    [] rustType = <<"u","1","6">> -> <<"u","i","n","t","1","6">>
    [] rustType = <<"u","3","2">> -> <<"u","i","n","t","3","2">>
    [] rustType = <<"u","6","4">> -> <<"u","i","n","t","6","4">>
    [] rustType = <<"f","3","2">> -> <<"f","l","o","a","t","3","2">>
    [] rustType = <<"f","6","4">> -> <<"f","l","o","a","t","6","4">>
    [] rustType = <<"b","o","o","l">> -> <<"b","o","o","l">>
    [] rustType = <<"s","t","r">> -> <<"s","t","r","i","n","g">>
    [] rustType = <<"S","t","r","i","n","g">> -> <<"s","t","r","i","n","g">>
    [] rustType = <<"(",")">> -> <<>>
    [] OTHER -> rustType

MapRustToGoType(rustType) ==
  CASE rustType = <<"i","8">> -> <<"i","n","t","8">>
    [] rustType = <<"i","1","6">> -> <<"i","n","t","1","6">>
    [] rustType = <<"i","3","2">> -> <<"i","n","t">>
    [] rustType = <<"i","6","4">> -> <<"i","n","t","6","4">>
    [] rustType = <<"u","8">> -> <<"u","i","n","t","8">>
    [] rustType = <<"u","1","6">> -> <<"u","i","n","t","1","6">>
    [] rustType = <<"u","3","2">> -> <<"u","i","n","t","3","2">>
    [] rustType = <<"u","6","4">> -> <<"u","i","n","t","6","4">>
    [] rustType = <<"f","3","2">> -> <<"f","l","o","a","t","3","2">>
    [] rustType = <<"f","6","4">> -> <<"f","l","o","a","t","6","4">>
    [] rustType = <<"b","o","o","l">> -> <<"b","o","o","l">>
    [] rustType = <<"s","t","r">> -> <<"s","t","r","i","n","g">>
    [] rustType = <<"S","t","r","i","n","g">> -> <<"s","t","r","i","n","g">>
    [] rustType = <<"(",")">> -> <<>>
    [] OTHER -> rustType

NewType(name, isPrimitive) ==
  [name |-> name, isPrimitive |-> isPrimitive]

\* the module of NewTransformer
NewModule ==
  [functions |-> <<>>, structs |-> <<>>, panic |-> FALSE]

transformType(astType) ==
  IF IsNil(astType) THEN NewType(<<>>, TRUE)
  ELSE IF astType.kind = "PathType" THEN NewType(MapRustToGoType(astType.path), TRUE)
  ELSE NewType(<<"i","n","t","e","r","f","a","c","e","{","}">>, FALSE)

getLiteralType(lit) ==
  CASE lit.lkind = "INT" -> NewType(<<"i","n","t">>, TRUE)
    [] lit.lkind = "FLOAT" -> NewType(<<"f","l","o","a","t","6","4">>, TRUE)
    [] lit.lkind = "STRING" -> NewType(<<"s","t","r","i","n","g">>, TRUE)
    [] lit.lkind = "BOOL" -> NewType(Str_bool, TRUE)
    [] lit.lkind = "IDENT" -> NewType(lit.val, FALSE)
    [] OTHER -> NewType(<<"i","n","t","e","r","f","a","c","e","{","}">>, FALSE)

\* transformExpr returns [node, panic]: panic when Type() is called on a nil Expression
RECURSIVE transformExpr(_)
RECURSIVE transformArgs(_, _, _)

transformArgs(args, i, acc) ==
  IF i > Len(args) THEN acc
  ELSE LET AfterArg(a) ==
             transformArgs(args, i + 1,
                           [list |-> Append(acc.list, a.node), panic |-> acc.panic \/ a.panic])
       IN  AfterArg(transformExpr(args[i]))

transformExpr(expr) ==
  IF IsNil(expr) THEN [node |-> Nil, panic |-> FALSE]
  ELSE CASE expr.kind = "Literal" ->
              [node |-> [kind |-> "LiteralExpr", value |-> expr.val, lkind |-> expr.lkind,
                         type |-> getLiteralType(expr), pos |-> expr.pos],
               panic |-> FALSE]
         [] expr.kind = "BlockExpr" -> [node |-> Nil, panic |-> FALSE]
         [] expr.kind = "BinaryExpr" ->
              LET Binary(left, right) ==
                    [node |-> [kind |-> "BinaryExpr", left |-> left.node, op |-> expr.op,
                               right |-> right.node,
                               type |-> IF IsNil(left.node) THEN Nil ELSE left.node.type,
                               pos |-> expr.pos],
                     panic |-> left.panic \/ right.panic \/ IsNil(left.node)]
              IN  Binary(transformExpr(expr.left), transformExpr(expr.right))
         [] expr.kind = "UnaryExpr" ->
              LET Unary(e) ==
                    [node |-> [kind |-> "UnaryExpr", op |-> expr.op, expr |-> e.node,
                               type |-> IF IsNil(e.node) THEN Nil ELSE e.node.type,
                               pos |-> expr.pos],
                     panic |-> e.panic \/ IsNil(e.node)]
              IN  Unary(transformExpr(expr.expr))
         [] expr.kind = "CallExpr" ->
              LET funcName == IF expr.func.kind = "Literal" THEN expr.func.val ELSE <<>>
                  isMacro  == EndsWithBang(funcName)
                  returnType == IF isMacro /\ funcName = <<"f","o","r","m","a","t","!">>
                                THEN NewType(<<"s","t","r","i","n","g">>, TRUE)
                                ELSE NewType(Str_unit, TRUE)
                  Call(args) ==
                    [node |-> [kind |-> "CallExpr", funcName |-> funcName, args |-> args.list,
                               type |-> returnType, pos |-> expr.pos, isMacro |-> isMacro],
                     panic |-> args.panic]
              IN  Call(transformArgs(expr.args, 1, [list |-> <<>>, panic |-> FALSE]))
         [] OTHER -> [node |-> Nil, panic |-> FALSE]

transformStmt(stmt) ==
  IF stmt.kind = "LetStmt"
  THEN LET Decl(e) ==
             [node |-> [kind |-> "Declaration", name |-> stmt.name,
                        type |-> transformType(stmt.type), initValue |-> e.node,
                        pos |-> stmt.pos],
              panic |-> e.panic]
       IN  Decl(transformExpr(stmt.init))
  ELSE IF stmt.kind = "ExprStmt"
  THEN LET ExprS(e) ==
             [node |-> [kind |-> "ExprStmt", expr |-> e.node, pos |-> stmt.pos],
              panic |-> e.panic]
       IN  ExprS(transformExpr(stmt.expr))
  ELSE [node |-> Nil, panic |-> FALSE]

RECURSIVE transformBody(_, _, _)
transformBody(stmts, i, acc) ==
  IF i > Len(stmts) THEN acc
  ELSE LET AfterStmt(s) ==
             transformBody(stmts, i + 1,
                           [list |-> IF IsNil(s.node) THEN acc.list ELSE Append(acc.list, s.node),
                            panic |-> acc.panic \/ s.panic])
       IN  AfterStmt(transformStmt(stmts[i]))

transformFunction(fn) ==
  IF IsNil(fn.body) THEN [node |-> Nil, panic |-> FALSE]
  ELSE LET WithBody(body) ==
             [node |-> [kind |-> "Function", name |-> fn.name,
                        params |-> [i \in DOMAIN fn.params |->
                                      [name |-> fn.params[i].name,
                                       type |-> transformType(fn.params[i].type)]],
                        returnType |-> transformType(fn.ret), body |-> body.list,
                        pos |-> fn.pos],
              panic |-> body.panic]
       IN  WithBody(transformBody(fn.body.stmts, 1, [list |-> <<>>, panic |-> FALSE]))

transformStruct(st) ==
  [kind |-> "Struct", name |-> st.name,
   fields |-> [i \in DOMAIN st.fields |->
                 [name |-> st.fields[i].name, type |-> transformType(st.fields[i].type)]],
   pos |-> st.pos]

\* Transform appends to the module the Transformer holds
RECURSIVE transformItems(_, _, _)
transformItems(module, items, i) ==
  IF i > Len(items) THEN module
  ELSE IF items[i].kind = "Function"
  THEN LET AfterFunction(f) ==
             transformItems(
               [module EXCEPT !.functions = IF IsNil(f.node) THEN @ ELSE Append(@, f.node),
                              !.panic = @ \/ f.panic],
               items, i + 1)
       IN  AfterFunction(transformFunction(items[i]))
  ELSE IF items[i].kind = "Struct"
  THEN transformItems([module EXCEPT !.structs = Append(@, transformStruct(items[i]))],
                      items, i + 1)
  ELSE transformItems(module, items, i + 1)

Transform(module, crate) ==
  transformItems(module, crate.items, 1)

(***************************************************************************)
(* Go code generator (backend.Generator).  The builder is kept as the      *)
(* sequence of emitted lines, each with its indentation and without the    *)
(* closing newline.                                                        *)
(***************************************************************************)
NewGenerator ==
  [lines |-> <<>>, indent |-> 0, panic |-> FALSE]

RECURSIVE Tabs(_)
Tabs(n) ==
  IF n <= 0 THEN <<>> ELSE <<"\t">> \o Tabs(n - 1)

emit(G, line) ==
  [G EXCEPT !.lines = Append(@, Tabs(G.indent) \o line)]

RECURSIVE Join(_, _)
Join(parts, sep) ==
  IF Len(parts) = 0 THEN <<>>
  ELSE IF Len(parts) = 1 THEN parts[1]
  ELSE parts[1] \o sep \o Join(Tail(parts), sep)

Contains(s, sub) ==
  \E i \in 0..(Len(s) - Len(sub)) : SubSeq(s, i + 1, i + Len(sub)) = sub

ToUpper(c) ==
  CASE c = "a" -> "A"
    [] c = "b" -> "B"
    [] c = "c" -> "C"
    [] c = "d" -> "D"
    [] c = "e" -> "E"
    [] c = "f" -> "F"
    [] c = "g" -> "G"
    [] c = "h" -> "H"
    [] c = "i" -> "I"
    [] c = "j" -> "J"
    [] c = "k" -> "K"
    [] c = "l" -> "L"
    [] c = "m" -> "M"
    [] c = "n" -> "N"
    [] c = "o" -> "O"
    [] c = "p" -> "P"
    [] c = "q" -> "Q"
    [] c = "r" -> "R"
    [] c = "s" -> "S"
    [] c = "t" -> "T"
    [] c = "u" -> "U"
    [] c = "v" -> "V"
    [] c = "w" -> "W"
    [] c = "x" -> "X"
    [] c = "y" -> "Y"
    [] c = "z" -> "Z"
    [] OTHER -> c

capitalize(s) ==
  IF Len(s) = 0 THEN s ELSE <<ToUpper(s[1])>> \o Tail(s)

\* strings.Trim(s, "\"")
RECURSIVE TrimQuotes(_)
TrimQuotes(s) ==
  IF Len(s) > 0 /\ s[1] = "\"" THEN TrimQuotes(Tail(s))
  ELSE IF Len(s) > 0 /\ s[Len(s)] = "\"" THEN TrimQuotes(SubSeq(s, 1, Len(s) - 1))
  ELSE s

TypeString(t) ==
  IF t.name # <<>> THEN t.name ELSE <<"u","n","k","n","o","w","n">>

isPrintlnMacro(expr) ==
  Contains(expr, <<"p","r","i","n","t","l","n","!">>) \/ Contains(expr, <<"I","D","E","N","T">>)

extractPrintlnArgs(expr) ==
  <<expr>>

RECURSIVE generateExpression(_)

generatePrintlnCall(args) ==
  <<"f","m","t",".","P","r","i","n","t","l","n","(">>
    \o Join([i \in DOMAIN args |-> generateExpression(args[i])], <<",", " ">>) \o <<")">>

generateFormatCall(args) ==
  IF Len(args) = 0 THEN <<"\"", "\"">>
  ELSE <<"f","m","t",".","S","p","r","i","n","t","f","(">>
         \o Join([i \in DOMAIN args |-> generateExpression(args[i])], <<",", " ">>) \o <<")">>

generateExpression(expr) ==
  IF IsNil(expr) THEN <<>>
  ELSE CASE expr.kind = "LiteralExpr" ->
              IF expr.lkind = "STRING" THEN <<"\"">> \o TrimQuotes(expr.value) \o <<"\"">>
              ELSE expr.value
         [] expr.kind = "BinaryExpr" ->
              LET Binary(left, right) ==
                    IF left = <<>> \/ right = <<>> THEN <<>>
                    ELSE IF expr.op = <<",">> /\ isPrintlnMacro(left)
                    THEN generatePrintlnCall(extractPrintlnArgs(expr.right))
                    ELSE <<"(">> \o left \o <<" ">> \o expr.op \o <<" ">> \o right \o <<")">>
              IN  Binary(generateExpression(expr.left), generateExpression(expr.right))
         [] expr.kind = "UnaryExpr" ->
              LET Unary(exprStr) == IF exprStr = <<>> THEN <<>> ELSE expr.op \o exprStr
              IN  Unary(generateExpression(expr.expr))
         [] expr.kind = "CallExpr" ->
              IF expr.isMacro
              THEN IF expr.funcName = <<"p","r","i","n","t","l","n","!">> THEN generatePrintlnCall(expr.args)
                   ELSE IF expr.funcName = <<"f","o","r","m","a","t","!">> THEN generateFormatCall(expr.args)
                   ELSE <<"/","/"," ","T","O","D","O",":"," ","m","a","c","r","o"," ">> \o expr.funcName
              ELSE LET strs == [i \in DOMAIN expr.args |-> generateExpression(expr.args[i])]
                       args == SelectSeq(strs, LAMBDA a : a # <<>>)
                   IN  expr.funcName \o <<"(">> \o Join(args, <<",", " ">>) \o <<")">>
         [] OTHER -> <<>>

generateStatement(G, stmt) ==
  CASE stmt.kind = "Declaration" ->
         LET Decl(exprStr) ==
               IF exprStr # <<>>
               THEN emit(G, stmt.name \o <<" ", ":", "=", " ">> \o exprStr)
               ELSE emit(G, <<"v", "a", "r", " ">> \o stmt.name \o <<" ">>
                              \o TypeString(stmt.type))
         IN  Decl(generateExpression(stmt.initValue))
    [] stmt.kind = "ExprStmt" -> emit(G, generateExpression(stmt.expr))
    [] OTHER -> G

generateParams(params) ==
  Join([i \in DOMAIN params |-> params[i].name \o <<" ">> \o TypeString(params[i].type)],
       <<",", " ">>)

generateStruct(G, st) ==
  LET G1 == emit(G, <<"t", "y", "p", "e", " ">> \o st.name \o <<" ","s","t","r","u","c","t"," ","{">>)
      G2 == [G1 EXCEPT !.indent = @ + 1]
      F[i \in 0..Len(st.fields)] ==
        IF i = 0 THEN G2
        ELSE emit(F[i - 1], capitalize(st.fields[i].name) \o <<" ">> \o TypeString(st.fields[i].type))
      G3 == F[Len(st.fields)]
  IN  emit([G3 EXCEPT !.indent = @ - 1], <<"}">>)

\* the function returns a value: its return type is neither empty nor "()"
NonVoid(fn) ==
  fn.returnType.name # <<>> /\ fn.returnType.name # Str_unit

\* the body loop of generateFunction from statement i on; done: the loop has
\* emitted the closing brace and returned
RECURSIVE generateBody(_, _, _, _)
generateBody(G, fn, hasReturn, i) ==
  IF i > Len(fn.body) THEN [G |-> G, done |-> FALSE]
  ELSE LET stmt == fn.body[i]
           isLastStmt == i = Len(fn.body)
           Last(exprStr) ==
             IF exprStr # <<>>
             THEN [G |-> emit([emit(G, <<"r", "e", "t", "u", "r", "n", " ">> \o exprStr)
                                 EXCEPT !.indent = @ - 1], <<"}">>),
                   done |-> TRUE]
             ELSE generateBody(generateStatement(G, stmt), fn, hasReturn, i + 1)
       IN  IF ~hasReturn /\ isLastStmt /\ NonVoid(fn) /\ stmt.kind = "ExprStmt"
           THEN Last(generateExpression(stmt.expr))
           ELSE generateBody(generateStatement(G, stmt), fn, hasReturn, i + 1)

generateFunction(G, fn) ==
  LET params == generateParams(fn.params)
      returnType == IF NonVoid(fn) THEN <<" ">> \o TypeString(fn.returnType) ELSE <<>>
      G1 == emit(G, <<"f", "u", "n", "c", " ">> \o fn.name \o <<"(">> \o params \o <<")">>
                      \o returnType \o <<" ", "{">>)
      hasReturn == \E i \in DOMAIN fn.body : fn.body[i].kind = "Return"
      Close(G2) == emit([G2 EXCEPT !.indent = @ - 1], <<"}">>)
      AfterBody(b) ==
        IF b.done THEN b.G
        ELSE IF NonVoid(fn) /\ ~hasReturn /\ Len(fn.body) = 0
        THEN [b.G EXCEPT !.panic = TRUE]
        ELSE IF NonVoid(fn) /\ ~hasReturn /\ fn.body[Len(fn.body)].kind # "ExprStmt"
        THEN Close(emit(b.G, <<"r","e","t","u","r","n"," ","/","/"," ","T","O","D","O",":"," ","a","d","d"," ","r","e","t","u","r","n"," ","v","a","l","u","e">>))
        ELSE Close(b.G)
  IN  AfterBody(generateBody([G1 EXCEPT !.indent = @ + 1], fn, hasReturn, 1))

RECURSIVE generateStructs(_, _, _)
generateStructs(G, structs, i) ==
  IF i > Len(structs) THEN G
  ELSE generateStructs(emit(generateStruct(G, structs[i]), <<>>), structs, i + 1)

RECURSIVE generateFunctions(_, _, _)
generateFunctions(G, functions, i) ==
  IF i > Len(functions) \/ G.panic THEN G
  ELSE LET AfterFunction(G1) ==
             generateFunctions(IF G1.panic THEN G1 ELSE emit(G1, <<>>), functions, i + 1)
       IN  AfterFunction(generateFunction(G, functions[i]))

Generate(module) ==
  LET G1 == emit(NewGenerator, <<"p","a","c","k","a","g","e"," ","m","a","i","n">>)
      G2 == emit(emit(G1, <<>>), <<"i","m","p","o","r","t"," ","(">>)
      G3 == emit(emit([G2 EXCEPT !.indent = @ + 1], <<"\"","f","m","t","\"">>), <<"/","/"," ","A","d","d"," ","m","o","r","e"," ","i","m","p","o","r","t","s"," ","a","s"," ","n","e","e","d","e","d">>)
      G4 == emit(emit([G3 EXCEPT !.indent = @ - 1], <<")">>), <<>>)
  IN  generateFunctions(generateStructs(G4, module.structs, 1), module.functions, 1)

(***************************************************************************)
(* Inputs                                                                  *)
(***************************************************************************)
\* runes the lexer inputs are made of: letters that start string prefixes,
\* quotes, the attribute brackets, the escape, blanks, a rune of no table, a
\* digit and the apostrophe
LexAlphabet ==
  {"r", "b", "\"", "#", "[", "]", "\\", " ", "\n", "$", "1", "'"}

RECURSIVE StringsUpTo(_, _)
StringsUpTo(A, n) ==
  IF n = 0 THEN {<<>>}
  ELSE LET shorter == StringsUpTo(A, n - 1)
       IN  shorter \cup {Append(s, c) : s \in {x \in shorter : Len(x) = n - 1}, c \in A}

RECURSIVE Flatten(_)
Flatten(ss) ==
  IF Len(ss) = 0 THEN <<>> ELSE Head(ss) \o Flatten(Tail(ss))

\* inputs with block comments: comment delimiters, text and code in any order
CommentFrags == {<<"/","*">>, <<"*","/">>, <<"a">>, <<" ">>, <<"\"">>, <<"[">>}

CommentInputs ==
  {Flatten(fs) : fs \in StringsUpTo(CommentFrags, MaxCommentFrags)}

LexInputs == StringsUpTo(LexAlphabet, MaxLen) \cup CommentInputs

\* cap(l.runes) after []rune(input): the allocator may round the length up
Caps(s) == {Len(s), Len(s) + 1}

FnHeaders ==
  {<<"f","n"," ","m","(",")","{">>,
   <<"f","n"," ","m","(","a",":","i","3","2",")","-",">","i","3","2","{">>}

\* a well-formed let, a let whose initializer is a stray ')', a macro call, a
\* nested block and a bare statement using an undeclared name, and a cooked
\* string opened by its quote whose first rune is the escape
GoodLet == <<"l","e","t"," ","x","=","1",";">>

BadLet == <<"l","e","t"," ","y","=",")",";">>

MacroCall == <<"p","!","(","\"","h","\"",")",";">>

NestedBlock == <<"{","u",";","}",";">>

BareIdent == <<"u",";">>

OpenString == <<"\"","\\">>

StmtFrags == {GoodLet, BadLet, MacroCall, NestedBlock, BareIdent, OpenString}

FnClosers == {<<"}">>, <<>>}

StmtPrograms ==
  {h \o Flatten(body) \o c : h \in FnHeaders, body \in StringsUpTo(StmtFrags, MaxFrags),
                            c \in FnClosers}

UnaryOperators == {<<"-">>, <<"!">>, <<"~">>}

BinaryOperators ==
  {<<"+">>, <<"-">>, <<"*">>, <<"/">>, <<"%">>, <<"=","=">>, <<"!","=">>, <<"<">>, <<">">>,
   <<"<","=">>, <<">","=">>, <<"&","&">>, <<"|","|">>}

OpHeader == <<"f","n"," ","m","(","a",":","i","3","2",",","b",":","i","3","2",")","{","l","e","t"," ","x","=">>

UnaryProgram(op) == OpHeader \o op \o <<"a", ";", "}">>

BinaryProgram(op) == OpHeader \o <<"a">> \o op \o <<"b", ";", "}">>

OpPrograms ==
  {UnaryProgram(op) : op \in UnaryOperators} \cup {BinaryProgram(op) : op \in BinaryOperators}

\* sources for the semantic checker
Src_DuplicateAfterUse == <<"f","n"," ","f","(",")","{","u",";","}","f","n"," ","f","(",")","{","}">>

Src_OperandUndefined == <<"f","n"," ","f","(",")","{","l","e","t"," ","x","=","1","+","u",";","}">>

Src_DeclaredTwice == <<"f","n"," ","f","(",")","{","}","f","n"," ","f","(",")","{","}">>

Src_DeclaredThrice == <<"f","n"," ","f","(",")","{","}","f","n"," ","f","(",")","{","}","f","n"," ","f","(",")","{","}">>

Src_DuplicateWiderFirst == <<"f","n"," ","f","(","a",":","i","3","2",")","{","}","f","n"," ","f","(",")","{","}","f","n"," ","m","(",")","{","f","(","1",")",";","}">>

Src_DuplicateWiderSecond == <<"f","n"," ","f","(",")","{","}","f","n"," ","f","(","a",":","i","3","2",")","{","}","f","n"," ","m","(",")","{","f","(","1",")",";","}">>

Src_StructTwice == <<"s","t","r","u","c","t"," ","S","{","}","s","t","r","u","c","t"," ","S","{","}">>

Src_FunctionThenStruct == <<"f","n"," ","f","(",")","{","}","s","t","r","u","c","t"," ","f","{","}">>

DuplicateSources ==
  {Src_DeclaredTwice, Src_DeclaredThrice, Src_DuplicateWiderFirst, Src_DuplicateWiderSecond,
   Src_StructTwice, Src_FunctionThenStruct}

Src_ArgMismatch == <<"f","n"," ","a","(","x",":","i","3","2",")","-",">","i","3","2","{","x","+","1","}","f","n"," ","m","(",")","{","l","e","t"," ","y","=","a","(","\"","s","\"",")",";","}">>

Src_TwoArgMismatches == <<"f","n"," ","a","(","x",":","i","3","2",",","y",":","b","o","o","l",")","{","}","f","n"," ","m","(",")","{","a","(","\"","s","\"",",","1",")",";","}">>

Src_ArgMismatchThenMore == <<"f","n"," ","a","(","x",":","i","3","2",",","y",":","i","3","2",")","-",">","i","3","2","{","x","}","f","n"," ","m","(",")","{","l","e","t"," ","r",":","i","3","2","=","a","(","\"","s","\"",",","1",")",";","u",";","}">>

Src_ArgStrString == <<"f","n"," ","a","(","x",":","s","t","r",")","{","}","f","n"," ","m","(",")","{","a","(","\"","s","\"",")",";","}">>

CallSources ==
  {Src_ArgMismatch, Src_TwoArgMismatches, Src_ArgMismatchThenMore, Src_ArgStrString}

\* fn f(a:i32)->i32{a}fn m(){let r:i32=f(1,2);}
Src_AritySurplus == <<"f","n"," ","f","(","a",":","i","3","2",")","-",">","i","3","2","{","a","}","f","n"," ","m","(",")","{","l","e","t"," ","r",":","i","3","2","=","f","(","1",",","2",")",";","}">>

\* fn f(a:i32){}fn m(){f();}
Src_ArityMissing == <<"f","n"," ","f","(","a",":","i","3","2",")","{","}","f","n"," ","m","(",")","{","f","(",")",";","}">>

AritySources == {Src_AritySurplus, Src_ArityMissing}

\* fn m(){g(1);}fn g(a:i32){}
Src_ForwardCall == <<"f","n"," ","m","(",")","{","g","(","1",")",";","}","f","n"," ","g","(","a",":","i","3","2",")","{","}">>

\* fn m(){g();}fn g(){m();}
Src_MutualRecursion == <<"f","n"," ","m","(",")","{","g","(",")",";","}","f","n"," ","g","(",")","{","m","(",")",";","}">>

\* fn m(){let r:i32=g();}fn g(a:i32)->i32{a}
Src_ForwardArity == <<"f","n"," ","m","(",")","{","l","e","t"," ","r",":","i","3","2","=","g","(",")",";","}","f","n"," ","g","(","a",":","i","3","2",")","-",">","i","3","2","{","a","}">>

ForwardSources == {Src_ForwardCall, Src_MutualRecursion, Src_ForwardArity}

\* fn m(){let a:i32=1;let b:f64=1.5;let s:String="s";let t:bool=true;}
Src_LiteralLets == <<"f","n"," ","m","(",")","{","l","e","t"," ","a",":","i","3","2","=","1",";","l","e","t"," ","b",":","f","6","4","=","1",".","5",";","l","e","t"," ","s",":","S","t","r","i","n","g","=","\"","s","\"",";","l","e","t"," ","t",":","b","o","o","l","=","t","r","u","e",";","}">>

\* fn m(){let c:char='a';}
Src_CharLet == <<"f","n"," ","m","(",")","{","l","e","t"," ","c",":","c","h","a","r","=","'","a","'",";","}">>

\* fn m(){let a:bool=1;let s:str="s";}
Src_LiteralMismatch == <<"f","n"," ","m","(",")","{","l","e","t"," ","a",":","b","o","o","l","=","1",";","l","e","t"," ","s",":","s","t","r","=","\"","s","\"",";","}">>

LiteralSources == {Src_LiteralLets, Src_CharLet, Src_LiteralMismatch}

\* fn m(){let r:T=L op R;} for literal operands L and R
LiteralTexts == {<<"1">>, <<"1",".","5">>, <<"\"","s","\"">>, <<"t","r","u","e">>}

LetTypes == {Str_i32, Str_f64, Str_bool, Str_String}

BinaryLetSource(T, L, op, R) ==
  <<"f","n"," ","m","(",")","{","l","e","t"," ","r",":">> \o T \o <<"=">> \o L \o op \o R \o <<";","}">>

BinarySources ==
  {BinaryLetSource(T, L, op, R) :
     T \in LetTypes, L \in LiteralTexts, op \in BinaryOperators, R \in LiteralTexts}

\* fn m(){let x=e1 op1 e2 ... opk e(k+1);} with plain operands a, b, c, ... or
\* with the operands -a, 1, (c), d, -e, f
OperandTexts ==
  <<<< <<"a">>, <<"b">>, <<"c">>, <<"d">>, <<"e">>, <<"f">> >>,
    << <<"-","a">>, <<"1">>, <<"(","c",")">>, <<"d">>, <<"-","e">>, <<"f">> >> >>

ChainCases ==
  {[ops |-> ops, operands |-> v] :
     ops \in StringsUpTo(ParseExprOps, MaxOps) \ {<<>>}, v \in DOMAIN OperandTexts}

RECURSIVE ChainTail(_, _)
ChainTail(c, i) ==
  IF i > Len(c.ops) THEN <<>>
  ELSE <<" ">> \o c.ops[i] \o <<" ">> \o OperandTexts[c.operands][i + 1] \o ChainTail(c, i + 1)

ChainSource(c) ==
  <<"f","n"," ","m","(",")","{","l","e","t"," ","x","=">> \o OperandTexts[c.operands][1] \o ChainTail(c, 1) \o <<";","}">>

ChainSources == {ChainSource(c) : c \in ChainCases}

\* function bodies whose last statement is a let without its ';', alone or
\* after a complete let, and alone in the file or before another function
MissingSemiLets ==
  {<<"l","e","t"," ","x"," ","="," ","1"," ">>, <<"l","e","t"," ","x","=","1">>, <<"l","e","t"," ","x",":","i","3","2","=","a","+","1">>, <<"l","e","t"," ","s","=","\"","t","\"">>}

MissingSemiSources ==
  {h \o pre \o l \o <<"}">> \o post :
     h \in {<<"f","n"," ","m","a","i","n","(",")"," ","{"," ">>, <<"f","n"," ","m","a","i","n","(",")","{">>},
     pre \in {<<>>, <<"l","e","t"," ","a","=","2",";">>},
     l \in MissingSemiLets,
     post \in {<<>>, <<"f","n"," ","g","(",")","{","}">>}}

\* fn f(a:T){} for the type names of the lowering table and some others
KnownTypeNames ==
  {<<"i","8">>, <<"i","1","6">>, <<"i","3","2">>, <<"i","6","4">>, <<"u","8">>, <<"u","1","6">>, <<"u","3","2">>, <<"u","6","4">>, <<"f","3","2">>, <<"f","6","4">>, <<"b","o","o","l">>, <<"s","t","r">>, <<"S","t","r","i","n","g">>}

OtherTypeNames ==
  {<<"S">>, <<"u","s","i","z","e">>, <<"c","h","a","r">>, <<"i","1","2","8">>, <<"i","n","t">>, <<"s","t","r","i","n","g">>}

TypeSource(T) == <<"f","n"," ","f","(","a",":">> \o T \o <<")","{","}">>

TypeSources == {TypeSource(T) : T \in KnownTypeNames \cup OtherTypeNames}

\* fn m(){let x={1}=={2};}
Src_BlockOperands == <<"f","n"," ","m","(",")","{","l","e","t"," ","x","=","{","1","}","=","=","{","2","}",";","}">>

\* fn m(){let x=1=={2};}
Src_BlockRightOperand == <<"f","n"," ","m","(",")","{","l","e","t"," ","x","=","1","=","=","{","2","}",";","}">>

BlockOperandSources == {Src_BlockOperands, Src_BlockRightOperand}

\* a function whose body has a statement that fails to parse, followed by
\* the well-formed function g
FollowingItem == <<"f","n"," ","g","(",")","{","}">>

ErrorThenItemSources ==
  {h \o Flatten(pre) \o BadLet \o Flatten(post) \o <<"}">> \o FollowingItem :
     h \in FnHeaders,
     pre \in StringsUpTo({GoodLet}, MaxFrags - 2),
     post \in StringsUpTo({GoodLet, BareIdent}, MaxFrags - 2)}

CheckSources ==
  {Src_DuplicateAfterUse, Src_OperandUndefined} \cup DuplicateSources \cup CallSources
    \cup AritySources \cup ForwardSources \cup LiteralSources \cup BinarySources

Programs == StmtPrograms \cup OpPrograms \cup CheckSources \cup ChainSources
              \cup MissingSemiSources \cup TypeSources \cup BlockOperandSources
              \cup ErrorThenItemSources

\* hand-made crates for Check, which takes any *ast.Crate: one function m whose
\* body is let r: T = L op R; with literal operands
BuiltLiterals ==
  {NewLiteral(Position(1, 18), "INT", <<"1">>),
   NewLiteral(Position(1, 18), "FLOAT", <<"1",".","5">>),
   NewLiteral(Position(1, 18), "STRING", <<"\"","s","\"">>),
   NewLiteral(Position(1, 18), "BOOL", <<"t","r","u","e">>)}

BuiltCrate(T, L, op, R) ==
  NewCrate(Position(1, 1),
    <<NewFunction(Position(1, 1), <<"m">>, <<>>, NewPathType(Position(1, 1), Str_unit),
        NewBlock(Position(1, 7),
          <<NewLetStmt(Position(1, 8), <<"r">>, NewPathType(Position(1, 14), T),
              NewBinaryExpr(L.pos, L, op, [R EXCEPT !.pos = Position(1, 24)]))>>))>>)

BuiltCrates ==
  {BuiltCrate(T, L, op, R) :
     T \in LetTypes, L \in BuiltLiterals, op \in BinaryOperators, R \in BuiltLiterals}

\* hand-made tokens for NewParser, which takes any []token.Token
RawTokens ==
  {Token("KEYWORD", "", <<"f","n">>, 1, 1), Token("IDENT", "", <<"f">>, 1, 1),
   Token("PUNCT", "", <<"(">>, 1, 1), Token("PUNCT", "", <<")">>, 1, 1),
   Token("PUNCT", "", <<"{">>, 1, 1), Token("PUNCT", "", <<"}">>, 1, 1),
   Token("INT", "", <<"1">>, 1, 1), Token("EOF", "", <<>>, 1, 1)}

RawTokenLists == StringsUpTo(RawTokens, MaxRawToks)

(***************************************************************************)
(* State machines                                                          *)
(***************************************************************************)
NoLex == [tokens |-> <<>>, err |-> NoErr, panic |-> FALSE]

NoParse == [panic |-> FALSE, crate |-> Nil, errors |-> <<>>]

\* the process: the stages main has run, whether output/<name>.go was written,
\* and the exit code once it has exited
NewCli ==
  [exited |-> FALSE, crashed |-> FALSE, code |-> 0, stages |-> <<>>, written |-> FALSE]

Init ==
  /\ pc = "start"
  /\ input = <<>>
  /\ lx = NewLexer
  /\ lexOut = NoLex
  /\ toks = <<>>
  /\ parsed = NoParse
  /\ semErrs = <<>>
  /\ irModule = NewModule
  /\ goCode = NewGenerator
  /\ cli = NewCli

(* ---- the lexer, one nextToken per step ---- *)
LexCall ==
  /\ pc = "start"
  /\ \E s \in LexInputs : \E cap \in Caps(s) :
       /\ input' = s
       /\ lx' = LexStart(s, lx, cap)
  /\ pc' = "lexing"
  /\ UNCHANGED <<lexOut, toks, parsed, semErrs, irModule, goCode, cli>>

LexNextToken ==
  /\ pc = "lexing"
  /\ LexLooping(lx)
  /\ lx' = nextToken(input, lx)
  /\ UNCHANGED <<pc, input, lexOut, toks, parsed, semErrs, irModule, goCode, cli>>

LexFinish ==
  /\ pc = "lexing"
  /\ ~LexLooping(lx)
  /\ lexOut' = LexReturn(lx)
  /\ pc' = "lexed"
  /\ UNCHANGED <<input, lx, toks, parsed, semErrs, irModule, goCode, cli>>

\* inputs of a second Lex call on the same Lexer
RelexInputs == StringsUpTo(LexAlphabet, MaxRelexLen)

\* Lex called again, start to finish, on the Lexer whose first call, on a
\* shorter input, has returned
LexAgain ==
  /\ pc = "lexed"
  /\ Len(input) < MaxRelexLen
  /\ \E s \in RelexInputs : \E cap \in Caps(s) :
       /\ input' = s
       /\ lx' = LexLoop(s, LexStart(s, lx, cap))
  /\ lexOut' = LexReturn(lx')
  /\ pc' = "relexed"
  /\ UNCHANGED <<toks, parsed, semErrs, irModule, goCode, cli>>

NextLex == LexCall \/ LexNextToken \/ LexFinish \/ LexAgain

SpecLex == Init /\ [][NextLex]_vars

(* ---- the library pipeline: Lex, NewParser, ParseFile, Check, Transform, Generate ---- *)
LexSource ==
  /\ pc = "start"
  /\ \E s \in Programs : \E cap \in Caps(s) :
       /\ input' = s
       /\ lx' = LexLoop(s, LexStart(s, lx, cap))
  /\ lexOut' = LexReturn(lx')
  /\ pc' = "lexed"
  /\ UNCHANGED <<toks, parsed, semErrs, irModule, goCode, cli>>

NewParserLexed ==
  /\ pc = "lexed"
  /\ ~lexOut.panic
  /\ lexOut.err = NoErr
  /\ toks' = lexOut.tokens
  /\ pc' = "parser"
  /\ UNCHANGED <<input, lx, lexOut, parsed, semErrs, irModule, goCode, cli>>

NewParserRaw ==
  /\ pc = "start"
  /\ \E ts \in RawTokenLists : toks' = ts
  /\ pc' = "parser"
  /\ UNCHANGED <<input, lx, lexOut, parsed, semErrs, irModule, goCode, cli>>

ParseFileCall ==
  /\ pc = "parser"
  /\ parsed' = ParseFile(toks)
  /\ pc' = "parsed"
  /\ UNCHANGED <<input, lx, lexOut, toks, semErrs, irModule, goCode, cli>>

CheckCall ==
  /\ pc = "parsed"
  /\ ~parsed.panic
  /\ semErrs' = Check(parsed.crate)
  /\ pc' = "checked"
  /\ UNCHANGED <<input, lx, lexOut, toks, parsed, irModule, goCode, cli>>

\* Check called on a crate that was not made by the parser
CheckBuilt ==
  /\ pc = "start"
  /\ \E crate \in BuiltCrates :
       /\ parsed' = [NoParse EXCEPT !.crate = crate]
       /\ semErrs' = Check(crate)
  /\ pc' = "checkedBuilt"
  /\ UNCHANGED <<input, lx, lexOut, toks, irModule, goCode, cli>>

TransformCall ==
  /\ pc = "checked"
  /\ irModule' = Transform(irModule, parsed.crate)
  /\ pc' = "lowered"
  /\ UNCHANGED <<input, lx, lexOut, toks, parsed, semErrs, goCode, cli>>

\* a second Transform call on the same Transformer, with the same crate
TransformAgain ==
  /\ pc = "lowered"
  /\ ~irModule.panic
  /\ irModule' = Transform(irModule, parsed.crate)
  /\ pc' = "loweredTwice"
  /\ UNCHANGED <<input, lx, lexOut, toks, parsed, semErrs, goCode, cli>>

GenerateCall ==
  /\ pc = "lowered"
  /\ ~irModule.panic
  /\ goCode' = Generate(irModule)
  /\ pc' = "generated"
  /\ UNCHANGED <<input, lx, lexOut, toks, parsed, semErrs, irModule, cli>>

Next ==
  \/ LexSource
  \/ NewParserLexed
  \/ NewParserRaw
  \/ ParseFileCall
  \/ CheckCall
  \/ CheckBuilt
  \/ TransformCall
  \/ TransformAgain
  \/ GenerateCall

Spec == Init /\ [][Next]_vars

(* ---- the command line: main ---- *)
Exit(c, code) ==
  [c EXCEPT !.exited = TRUE, !.code = code]

Stage(c, name) ==
  [c EXCEPT !.stages = Append(@, name)]

\* an uncaught Go panic ends the process with status 2
Crash(c) ==
  [c EXCEPT !.exited = TRUE, !.crashed = TRUE, !.code = 2]

\* len(os.Args) < 2: usage and os.Exit(1)
MainArgs ==
  /\ pc = "start"
  /\ \E hasFile \in BOOLEAN :
       IF hasFile
       THEN pc' = "read" /\ cli' = cli
       ELSE pc' = "exited" /\ cli' = Exit(cli, 1)
  /\ UNCHANGED <<input, lx, lexOut, toks, parsed, semErrs, irModule, goCode>>

\* os.ReadFile: a read error and os.Exit(1), or the file's text
MainReadFile ==
  /\ pc = "read"
  /\ \E ok \in BOOLEAN : \E s \in Programs :
       IF ok
       THEN input' = s /\ pc' = "lex" /\ cli' = Stage(cli, "read")
       ELSE input' = input /\ pc' = "exited" /\ cli' = Exit(cli, 1)
  /\ UNCHANGED <<lx, lexOut, toks, parsed, semErrs, irModule, goCode>>

\* lexer.NewLexer().Lex: a lex error and os.Exit(1)
MainLex ==
  /\ pc = "lex"
  /\ \E cap \in Caps(input) : lx' = LexLoop(input, LexStart(input, NewLexer, cap))
  /\ lexOut' = LexReturn(lx')
  /\ IF lexOut'.panic THEN pc' = "exited" /\ cli' = Crash(cli)
     ELSE IF lexOut'.err # NoErr THEN pc' = "exited" /\ cli' = Exit(cli, 1)
     ELSE pc' = "parse" /\ cli' = Stage(cli, "lex")
  /\ UNCHANGED <<input, toks, parsed, semErrs, irModule, goCode>>

\* parser.NewParser(toks).ParseFile(): with errors they are printed and main
\* runs off its end
MainParse ==
  /\ pc = "parse"
  /\ toks' = lexOut.tokens
  /\ parsed' = ParseFile(toks')
  /\ IF parsed'.panic THEN pc' = "exited" /\ cli' = Crash(Stage(cli, "parse"))
     ELSE IF Len(parsed'.errors) > 0
     THEN pc' = "exited" /\ cli' = Exit(Stage(cli, "parse"), 0)
     ELSE pc' = "check" /\ cli' = Stage(cli, "parse")
  /\ UNCHANGED <<input, lx, lexOut, semErrs, irModule, goCode>>

\* sema.NewChecker().Check: with errors they are printed and os.Exit(1)
MainCheck ==
  /\ pc = "check"
  /\ semErrs' = Check(parsed.crate)
  /\ IF Len(semErrs') > 0
     THEN pc' = "exited" /\ cli' = Exit(Stage(cli, "check"), 1)
     ELSE pc' = "transform" /\ cli' = Stage(cli, "check")
  /\ UNCHANGED <<input, lx, lexOut, toks, parsed, irModule, goCode>>

\* ir.NewTransformer().Transform
MainTransform ==
  /\ pc = "transform"
  /\ irModule' = Transform(NewModule, parsed.crate)
  /\ IF irModule'.panic THEN pc' = "exited" /\ cli' = Crash(Stage(cli, "lower"))
     ELSE pc' = "generate" /\ cli' = Stage(cli, "lower")
  /\ UNCHANGED <<input, lx, lexOut, toks, parsed, semErrs, goCode>>

\* backend.NewGenerator().Generate
MainGenerate ==
  /\ pc = "generate"
  /\ goCode' = Generate(irModule)
  /\ IF goCode'.panic THEN pc' = "exited" /\ cli' = Crash(Stage(cli, "generate"))
     ELSE pc' = "write" /\ cli' = Stage(cli, "generate")
  /\ UNCHANGED <<input, lx, lexOut, toks, parsed, semErrs, irModule>>

\* os.MkdirAll and os.WriteFile: a failure is a warning, main returns either way
MainWrite ==
  /\ pc = "write"
  /\ \E ok \in BOOLEAN : cli' = Exit([Stage(cli, "write") EXCEPT !.written = ok], 0)
  /\ pc' = "exited"
  /\ UNCHANGED <<input, lx, lexOut, toks, parsed, semErrs, irModule, goCode>>

NextCli ==
  \/ MainArgs
  \/ MainReadFile
  \/ MainLex
  \/ MainParse
  \/ MainCheck
  \/ MainTransform
  \/ MainGenerate
  \/ MainWrite

SpecCli == Init /\ [][NextCli]_vars

(***************************************************************************)
(* Properties                                                              *)
(***************************************************************************)
Range(seq) == {seq[i] : i \in DOMAIN seq}

Quote == "\""

\* C1: whenever Lex returns no error, the token list is non-empty, its last
\* token is EOF and no earlier token is EOF.
C1_SingleEOFAtEnd ==
  (pc = "lexed" /\ ~lexOut.panic /\ lexOut.err = NoErr) =>
    /\ Len(lexOut.tokens) >= 1
    /\ lexOut.tokens[Len(lexOut.tokens)].type = "EOF"
    /\ \A i \in 1..(Len(lexOut.tokens) - 1) : lexOut.tokens[i].type # "EOF"

\* Lex has returned, without error, a list of source tokens followed by EOF
C1_Witness ==
  /\ pc = "lexed"
  /\ ~lexOut.panic
  /\ lexOut.err = NoErr
  /\ Len(lexOut.tokens) >= 3
  /\ Len(input) >= 3

\* an input whose only double quote opens a string literal that nothing closes
\* (no '[' occurs, so the quote is not inside an attribute)
OpensUnclosedString(s) ==
  /\ Cardinality({i \in DOMAIN s : s[i] = Quote}) = 1
  /\ Range(s) \cap {"[", "/", "'"} = {}

\* an input with no string literal, no attribute opener '#[' and no raw-string
\* prefix r#: its '#' characters belong to no literal
NoLiteralOpener(s) ==
  /\ Range(s) \cap {Quote, "'"} = {}
  /\ \A i \in DOMAIN s :
       s[i] = "#" =>
         /\ (i < Len(s) => s[i + 1] # "[")
         /\ (i > 1 => s[i - 1] \notin {"r", "#"})

\* C2: Lex returns an error exactly when a string literal or an attribute is
\* left unclosed or a raw prefix is malformed, any other character yielding
\* only an ILLEGAL token; and an error comes with no token list.
C2_ErrorExactlyOnUnclosedLiteral ==
  (pc = "lexed" /\ ~lexOut.panic) =>
    /\ (lexOut.err # NoErr => lexOut.tokens = <<>>)
    /\ (OpensUnclosedString(input) => lexOut.err # NoErr)
    /\ (NoLiteralOpener(input) => lexOut.err = NoErr)

\* function bodies made only of macro invocations name!("...");
MacroSources ==
  {<<"f","n"," ","m","(",")","{">> \o Flatten(body) \o <<"}">> :
     body \in StringsUpTo({MacroCall}, MaxFrags) \ {<<>>}}

BodyStmts == parsed.crate.items[1].body.stmts

\* C3: a source whose function body invokes a macro as name!(args) gets no
\* diagnostic from lexing, parsing and checking; the AST callee is name! and
\* the IR call has FuncName name! and IsMacro set.
C3_MacroCallAccepted ==
  (pc = "lowered" /\ input \in MacroSources) =>
    /\ lexOut.err = NoErr
    /\ parsed.errors = <<>>
    /\ semErrs = <<>>
    /\ \A i \in DOMAIN BodyStmts :
         /\ BodyStmts[i].kind = "ExprStmt"
         /\ BodyStmts[i].expr.kind = "CallExpr"
         /\ BodyStmts[i].expr.func.val = <<"p", "!">>
    /\ ~irModule.panic
    /\ \A i \in DOMAIN irModule.functions[1].body :
         /\ irModule.functions[1].body[i].expr.funcName = <<"p", "!">>
         /\ irModule.functions[1].body[i].expr.isMacro

\* C4: ParseFile returns for every finite token list, and returns a crate.
C4_ParseFileReturnsCrate ==
  pc = "parsed" => (~parsed.panic /\ parsed.crate.kind = "Crate")

GoodFrags == {GoodLet, MacroCall, NestedBlock, BareIdent}

\* a block whose first statement fails to parse, followed by well-formed ones
RecoverySources ==
  {[src |-> h \o BadLet \o Flatten(rest) \o <<"}">>, following |-> Len(rest)] :
     h \in FnHeaders, rest \in StringsUpTo(GoodFrags, MaxFrags - 1) \ {<<>>}}

\* C5: after a statement fails to parse, every well-formed statement that
\* follows its ';' in the block is in the block's statement list, and the
\* only parse error is the failed statement's.
C5_RecoveryKeepsFollowingStatements ==
  \A r \in RecoverySources :
    (pc = "parsed" /\ input = r.src) =>
      /\ Len(parsed.errors) = 1
      /\ Len(BodyStmts) = r.following

\* C6: each unary operator of {-, !, ~} and each binary operator of
\* {+, -, *, /, %, ==, !=, <, >, <=, >=, &&, ||}, written on identifiers as a
\* let initializer, parses without error into the node carrying it.
C6_EveryOperatorParses ==
  /\ \A op \in UnaryOperators :
       (pc = "parsed" /\ input = UnaryProgram(op)) =>
         /\ parsed.errors = <<>>
         /\ BodyStmts[1].init.kind = "UnaryExpr"
         /\ BodyStmts[1].init.op = op
  /\ \A op \in BinaryOperators :
       (pc = "parsed" /\ input = BinaryProgram(op)) =>
         /\ parsed.errors = <<>>
         /\ BodyStmts[1].init.kind = "BinaryExpr"
         /\ BodyStmts[1].init.op = op

OneBased(pos) == pos.line >= 1 /\ pos.col >= 1

\* C7: every ParseError and SemanticError produced for a lexed source has
\* line >= 1 and column >= 1.
C7_DiagnosticsCarryPosition ==
  Len(lexOut.tokens) > 0 =>
    /\ \A i \in DOMAIN parsed.errors : OneBased(parsed.errors[i].pos)
    /\ \A i \in DOMAIN semErrs : OneBased(semErrs[i].pos)

\* read, lex, parse and check all completed without any error
StagesSucceeded ==
  /\ "check" \in Range(cli.stages)
  /\ Len(parsed.errors) = 0
  /\ Len(semErrs) = 0

\* C8: the process exits with code 0 iff reading, lexing, parsing and
\* checking all completed without error.
C8_ExitZeroIffStagesSucceed ==
  (cli.exited /\ ~cli.crashed) => (cli.code = 0 <=> StagesSucceeded)

StageOrder == <<"read", "lex", "parse", "check", "lower", "generate", "write">>

\* C9: the stages run in order; the check runs even after parse errors; and
\* lowering, generation and writing happen only with no error recorded.
C9_StagesRunAsSpecified ==
  /\ cli.stages = SubSeq(StageOrder, 1, Len(cli.stages))
  /\ (cli.exited /\ ~cli.crashed /\ "parse" \in Range(cli.stages))
       => "check" \in Range(cli.stages)
  /\ (Range(cli.stages) \cap {"lower", "generate", "write"} # {})
       => (Len(parsed.errors) = 0 /\ Len(semErrs) = 0)

\* the identifiers used as expressions that are not in scope
RECURSIVE UndefinedInExpr(_, _), UndefinedInStmts(_, _, _)
UndefinedInExpr(e, bound) ==
  IF IsNil(e) THEN {}
  ELSE CASE e.kind = "Literal" ->
              IF e.lkind = "IDENT" /\ e.val \notin bound
              THEN {[name |-> e.val, pos |-> e.pos]} ELSE {}
         [] e.kind = "BinaryExpr" ->
              UndefinedInExpr(e.left, bound) \cup UndefinedInExpr(e.right, bound)
         [] e.kind = "UnaryExpr" -> UndefinedInExpr(e.expr, bound)
         [] e.kind = "CallExpr" ->
              UNION {UndefinedInExpr(e.args[i], bound) : i \in DOMAIN e.args}
         [] e.kind = "BlockExpr" -> UndefinedInStmts(e.block.stmts, 1, bound)
         [] OTHER -> {}

UndefinedInStmts(stmts, i, bound) ==
  IF i > Len(stmts) THEN {}
  ELSE IF stmts[i].kind = "LetStmt"
  THEN UndefinedInExpr(stmts[i].init, bound)
         \cup UndefinedInStmts(stmts, i + 1, bound \cup {stmts[i].name})
  ELSE UndefinedInExpr(stmts[i].expr, bound) \cup UndefinedInStmts(stmts, i + 1, bound)

UndefinedIdentifiers(crate) ==
  LET globals == {crate.items[i].name : i \in DOMAIN crate.items}
  IN  UNION {UndefinedInStmts(crate.items[i].body.stmts, 1,
                              globals \cup {crate.items[i].params[k].name :
                                              k \in DOMAIN crate.items[i].params}) :
               i \in {j \in DOMAIN crate.items : crate.items[j].kind = "Function"}}

\* C10: every identifier used as an expression in a function body that names
\* no parameter, earlier let-binding or top-level item gets an "undefined
\* identifier" error at its position.
C10_UndefinedIdentifierReported ==
  (pc = "checked" /\ Len(lexOut.tokens) > 0 /\ parsed.errors = <<>>) =>
    \A u \in UndefinedIdentifiers(parsed.crate) :
      \E i \in DOMAIN semErrs :
        /\ semErrs[i].msg = "undefined identifier: %s"
        /\ semErrs[i].args = <<u.name>>
        /\ semErrs[i].pos = u.pos

\* row-major order of positions
PosLeq(p, q) ==
  p.line < q.line \/ (p.line = q.line /\ p.col <= q.col)

\* C11: the diagnostics returned by one Check call are in source order: an
\* earlier diagnostic's position is not after a later one's.
C11_DiagnosticsInSourceOrder ==
  (pc = "checked" /\ Len(lexOut.tokens) > 0) =>
    \A i, j \in DOMAIN semErrs : i < j => PosLeq(semErrs[i].pos, semErrs[j].pos)

\* line and column of the rune at 0-based index idx of s, counted from the text
LineOf(s, idx) ==
  1 + Cardinality({k \in 1..idx : k <= Len(s) /\ s[k] = "\n"})

ColOf(s, idx) ==
  LET feeds == {k \in 1..idx : k <= Len(s) /\ s[k] = "\n"}
      last  == IF feeds = {} THEN 0 ELSE CHOOSE k \in feeds : \A m \in feeds : m <= k
  IN  idx + 1 - last

\* the index at which the token scanned by the next nextToken call starts
TokenStart == skipWhitespace(input, lx).pos

\* this step is a nextToken call that appended a token
TokenEmitted ==
  /\ pc = "lexing" /\ pc' = "lexing"
  /\ Len(lx'.tokens) = Len(lx.tokens) + 1

NewToken == lx'.tokens[Len(lx'.tokens)]

\* C12: in a successful Lex call on a new Lexer every token's position is
\* 1-based and is the line and column of its first character, and no token's
\* position precedes the previous token's.
C12_TokenPositions ==
  /\ [](pc = "lexed" /\ ~lexOut.panic /\ lexOut.err = NoErr =>
          /\ \A i \in DOMAIN lexOut.tokens : OneBased(TokPos(lexOut.tokens[i]))
          /\ \A i \in 1..(Len(lexOut.tokens) - 1) :
               PosLeq(TokPos(lexOut.tokens[i]), TokPos(lexOut.tokens[i + 1])))
  /\ [][TokenEmitted =>
          /\ NewToken.line = LineOf(input, TokenStart)
          /\ NewToken.col = ColOf(input, TokenStart)]_vars

\* Lex has returned tokens of more than one line
C12_Witness ==
  /\ pc = "lexed"
  /\ ~lexOut.panic
  /\ lexOut.err = NoErr
  /\ Len(lexOut.tokens) >= 3
  /\ lexOut.tokens[2].line = 2
  /\ lexOut.tokens[2].col = 1

\* s has the two runes a, b at 1-based index i
At2(s, i, a, b) ==
  i + 1 <= Len(s) /\ s[i] = a /\ s[i + 1] = b

\* the index of the last rune of the comment whose body starts at i with the
\* given nesting depth, 0 when the comment is not closed
RECURSIVE CommentClose(_, _, _)
CommentClose(s, i, depth) ==
  IF depth = 0 THEN i - 1
  ELSE IF i > Len(s) THEN 0
  ELSE IF At2(s, i, "/", "*") THEN CommentClose(s, i + 2, depth + 1)
  ELSE IF At2(s, i, "*", "/") THEN CommentClose(s, i + 2, depth - 1)
  ELSE CommentClose(s, i + 1, depth)

\* the length of the longest prefix of s made of balanced block comments
RECURSIVE CommentsEnd(_, _)
CommentsEnd(s, done) ==
  IF At2(s, done + 1, "/", "*") /\ CommentClose(s, done + 3, 1) > 0
  THEN CommentsEnd(s, CommentClose(s, done + 3, 1))
  ELSE done

\* kinds and literals of a token list, positions left out
Shapes(tokens) ==
  [i \in DOMAIN tokens |-> <<tokens[i].type, tokens[i].subtype, tokens[i].lit>>]

CodeAfterComments(s) ==
  SubSeq(s, CommentsEnd(s, 0) + 1, Len(s))

ConsumedText == SubSeq(input, TokenStart + 1, lx'.pos)

IsCommentText(text) ==
  At2(text, 1, "/", "/") \/ At2(text, 1, "/", "*")

StripSpaces(s) == SelectSeq(s, LAMBDA c : c \notin Spaces)

Literals(tokens) == Flatten([i \in DOMAIN tokens |-> tokens[i].lit])

Items == parsed.crate.items

\* a source was lexed and parsed without error, and Check has returned
CheckedCleanParse ==
  pc = "checked" /\ Len(lexOut.tokens) > 0 /\ parsed.errors = <<>>

DeclsOf(n) == {i \in DOMAIN Items : Items[i].name = n}

FirstDecl(n) == Items[CHOOSE i \in DeclsOf(n) : \A k \in DeclsOf(n) : i <= k]

DupMsg(item) ==
  IF item.kind = "Function" THEN "duplicate function declaration: %s"
  ELSE "duplicate struct declaration: %s"

DupErrors(n) ==
  {e \in DOMAIN semErrs :
     /\ semErrs[e].msg \in {"duplicate function declaration: %s", "duplicate struct declaration: %s"}
     /\ semErrs[e].args = <<n>>}

\* the calls that are statements of a function body, with their callee name
StmtCalls ==
  UNION {{Items[i].body.stmts[k].expr :
            k \in {m \in DOMAIN Items[i].body.stmts :
                     /\ Items[i].body.stmts[m].kind = "ExprStmt"
                     /\ Items[i].body.stmts[m].expr.kind = "CallExpr"}} :
         i \in {j \in DOMAIN Items : Items[j].kind = "Function"}}

ArityErrorsAt(call) ==
  {e \in DOMAIN semErrs :
     /\ semErrs[e].msg = "function %s expects %d arguments, got %d"
     /\ semErrs[e].pos = call.pos}

\* C15: a name declared by k top-level items gets k-1 duplicate-declaration
\* errors, one at each declaration after the first, and calls to the name
\* are checked against the first declaration.
C15_DuplicateDeclarations ==
  CheckedCleanParse =>
    /\ \A i \in DOMAIN Items :
         /\ Cardinality(DupErrors(Items[i].name)) = Cardinality(DeclsOf(Items[i].name)) - 1
         /\ (Items[i] # FirstDecl(Items[i].name) =>
               \E e \in DupErrors(Items[i].name) :
                 semErrs[e].pos = Items[i].pos /\ semErrs[e].msg = DupMsg(Items[i]))
    /\ \A call \in StmtCalls :
         (DeclsOf(call.func.val) # {} /\ FirstDecl(call.func.val).kind = "Function") =>
           IF Len(call.args) # Len(FirstDecl(call.func.val).params)
           THEN \E e \in ArityErrorsAt(call) :
                  semErrs[e].args = <<call.func.val, Len(FirstDecl(call.func.val).params),
                                     Len(call.args)>>
           ELSE ArityErrorsAt(call) = {}

\* Check has returned a duplicate error and, for a call that fits the second
\* declaration only, an arity error against the first
C15_Witness ==
  /\ CheckedCleanParse
  /\ input = Src_DuplicateWiderSecond
  /\ Len(semErrs) = 2
  /\ DupErrors(<<"f">>) # {}

FunctionItems == {j \in DOMAIN Items : Items[j].kind = "Function"}

\* the let statements of function bodies whose initializer is a call
LetCalls ==
  UNION {{Items[i].body.stmts[k] :
            k \in {m \in DOMAIN Items[i].body.stmts :
                     /\ Items[i].body.stmts[m].kind = "LetStmt"
                     /\ Items[i].body.stmts[m].init.kind = "CallExpr"}} :
         i \in FunctionItems}

BodyCalls == StmtCalls \cup {ls.init : ls \in LetCalls}

\* the callee is a registered function and the call has its number of arguments
CallsFunction(call) ==
  /\ DeclsOf(call.func.val) # {}
  /\ FirstDecl(call.func.val).kind = "Function"

RightArity(call) ==
  Len(call.args) = Len(FirstDecl(call.func.val).params)

\* the type of a literal argument by its kind
LiteralKindType(lkind) ==
  CASE lkind = "INT" -> Str_i32
    [] lkind = "FLOAT" -> Str_f64
    [] lkind = "STRING" -> Str_String
    [] lkind = "BOOL" -> Str_bool
    [] lkind = "CHAR" -> <<"c","h","a","r">>

LiteralArgs(call) ==
  \A k \in DOMAIN call.args :
    call.args[k].kind = "Literal" /\ call.args[k].lkind \in {"INT", "FLOAT", "STRING", "BOOL"}

Compatible(p, a) ==
  p = a \/ Str_infer \in {p, a} \/ {p, a} = {Str_str, Str_String}

ArgErrorsAt(call, k) ==
  {e \in DOMAIN semErrs :
     /\ semErrs[e].msg = "argument %d of %s: expected %s, got %s"
     /\ semErrs[e].pos = call.pos
     /\ semErrs[e].args[1] = k}

MismatchErrorsAt(ls) ==
  {e \in DOMAIN semErrs :
     semErrs[e].msg = "type mismatch: expected %s, got %s" /\ semErrs[e].pos = ls.pos}

\* the statements that are a bare identifier naming nothing in the crate
UnknownNameStmts ==
  UNION {{Items[i].body.stmts[k].expr :
            k \in {m \in DOMAIN Items[i].body.stmts :
                     /\ Items[i].body.stmts[m].kind = "ExprStmt"
                     /\ Items[i].body.stmts[m].expr.kind = "Literal"
                     /\ Items[i].body.stmts[m].expr.lkind = "IDENT"
                     /\ Items[i].body.stmts[m].expr.val = <<"u">>}} :
         i \in FunctionItems}

\* C16: a call to a registered function with the right number of arguments
\* gets one error "argument i of f: expected P, got A" for each argument whose
\* type is not compatible with the parameter's and none for the others; the
\* call still has f's return type and the following statements are checked.
C16_ArgumentTypeErrors ==
  CheckedCleanParse =>
    /\ \A call \in BodyCalls :
         (CallsFunction(call) /\ RightArity(call) /\ LiteralArgs(call)) =>
           \A k \in DOMAIN call.args :
             LET P == FirstDecl(call.func.val).params[k].type.path
                 A == LiteralKindType(call.args[k].lkind)
             IN  IF Compatible(P, A) THEN ArgErrorsAt(call, k) = {}
                 ELSE /\ Cardinality(ArgErrorsAt(call, k)) = 1
                      /\ \A e \in ArgErrorsAt(call, k) :
                           semErrs[e].args = <<k, call.func.val, P, A>>
    /\ \A ls \in LetCalls :
         (CallsFunction(ls.init) /\ RightArity(ls.init)
            /\ ls.type.path = FirstDecl(ls.init.func.val).ret.path) =>
           MismatchErrorsAt(ls) = {}
    /\ \A id \in UnknownNameStmts :
         \E e \in DOMAIN semErrs :
           semErrs[e].msg = "undefined identifier: %s" /\ semErrs[e].pos = id.pos

\* Check has returned one argument error for a call with one bad argument,
\* and the error of the statement after it
C16_Witness ==
  /\ CheckedCleanParse
  /\ input = Src_ArgMismatchThenMore
  /\ Len(semErrs) = 2
  /\ semErrs[1].msg = "argument %d of %s: expected %s, got %s"
  /\ semErrs[2].msg = "undefined identifier: %s"

\* C17: a call whose number of arguments differs from the number of parameters
\* of the registered function gets exactly one arity error, and the call still
\* has the function's return type: a let binding annotated with that type gets
\* no type mismatch.
C17_ArityMismatchKeepsReturnType ==
  CheckedCleanParse =>
    /\ \A call \in BodyCalls :
         (CallsFunction(call) /\ ~RightArity(call)) =>
           /\ Cardinality(ArityErrorsAt(call)) = 1
           /\ \A k \in DOMAIN call.args : ArgErrorsAt(call, k) = {}
    /\ \A ls \in LetCalls :
         (CallsFunction(ls.init) /\ ~RightArity(ls.init)
            /\ ls.type.path = FirstDecl(ls.init.func.val).ret.path) =>
           MismatchErrorsAt(ls) = {}

UndefinedFunctionErrorsAt(call) ==
  {e \in DOMAIN semErrs :
     semErrs[e].msg = "undefined function: %s" /\ semErrs[e].pos = call.pos}

\* the item whose body holds the call, and the calls to items declared after it
CallsIn(i) ==
  {Items[i].body.stmts[k].expr :
     k \in {m \in DOMAIN Items[i].body.stmts :
              /\ Items[i].body.stmts[m].kind = "ExprStmt"
              /\ Items[i].body.stmts[m].expr.kind = "CallExpr"}}
  \cup
  {Items[i].body.stmts[k].init :
     k \in {m \in DOMAIN Items[i].body.stmts :
              /\ Items[i].body.stmts[m].kind = "LetStmt"
              /\ Items[i].body.stmts[m].init.kind = "CallExpr"}}

ForwardCalls ==
  UNION {{call \in CallsIn(i) :
            \E j \in FunctionItems : j > i /\ Items[j].name = call.func.val} :
         i \in FunctionItems}

\* C18: every top-level function is registered before any body is checked:
\* a call to a function of the crate, declared before or after the caller,
\* never gets `undefined function` and is checked against the callee's
\* parameters.
C18_ForwardReferencesResolve ==
  CheckedCleanParse =>
    /\ \A call \in BodyCalls :
         CallsFunction(call) =>
           /\ UndefinedFunctionErrorsAt(call) = {}
           /\ (ArityErrorsAt(call) = {}) <=> RightArity(call)
    /\ \A e \in DOMAIN semErrs :
         semErrs[e].msg = "undefined function: %s" => DeclsOf(semErrs[e].args[1]) = {}

\* Check has returned for two functions calling each other, without errors
C18_Witness ==
  /\ CheckedCleanParse
  /\ input = Src_MutualRecursion
  /\ ForwardCalls # {}
  /\ BodyCalls \ ForwardCalls # {}
  /\ semErrs = <<>>

\* the let statements of function bodies initialised by a literal of a kind
LetLiterals ==
  UNION {{Items[i].body.stmts[k] :
            k \in {m \in DOMAIN Items[i].body.stmts :
                     /\ Items[i].body.stmts[m].kind = "LetStmt"
                     /\ Items[i].body.stmts[m].init.kind = "Literal"
                     /\ Items[i].body.stmts[m].init.lkind
                          \in {"INT", "FLOAT", "STRING", "BOOL", "CHAR"}}} :
         i \in FunctionItems}

\* C19: literals have the type of their kind (INT i32, FLOAT f64, STRING
\* String, BOOL bool, CHAR char): a let binding initialised by a literal gets
\* no type mismatch when its annotation is compatible with that type, and one
\* naming both types when it is not.
C19_LiteralTypes ==
  CheckedCleanParse =>
    \A ls \in LetLiterals :
      IF Compatible(ls.type.path, LiteralKindType(ls.init.lkind))
      THEN MismatchErrorsAt(ls) = {}
      ELSE /\ Cardinality(MismatchErrorsAt(ls)) = 1
           /\ \A e \in MismatchErrorsAt(ls) :
                semErrs[e].args = <<ls.type.path, LiteralKindType(ls.init.lkind)>>

\* Check has returned for a crate that parsed cleanly or was built by hand
CheckedCrate == CheckedCleanParse \/ pc = "checkedBuilt"

OperandKinds == {"INT", "FLOAT", "STRING", "BOOL"}

\* the let statements of function bodies initialised by a binary expression
\* of two literals
LetBinaries ==
  UNION {{Items[i].body.stmts[k] :
            k \in {m \in DOMAIN Items[i].body.stmts :
                     /\ Items[i].body.stmts[m].kind = "LetStmt"
                     /\ Items[i].body.stmts[m].type.kind = "PathType"
                     /\ Items[i].body.stmts[m].init.kind = "BinaryExpr"
                     /\ Items[i].body.stmts[m].init.left.kind = "Literal"
                     /\ Items[i].body.stmts[m].init.left.lkind \in OperandKinds
                     /\ Items[i].body.stmts[m].init.right.kind = "Literal"
                     /\ Items[i].body.stmts[m].init.right.lkind \in OperandKinds}} :
         i \in FunctionItems}

NumericTypes ==
  {<<"i","8">>, <<"i","1","6">>, Str_i32, <<"i","6","4">>, <<"u","8">>, <<"u","1","6">>,
   <<"u","3","2">>, <<"u","6","4">>, <<"f","3","2">>, Str_f64}

ArithmeticOps == {<<"+">>, <<"-">>, <<"*">>, <<"/">>, <<"%">>}

ComparisonOps == {<<"=","=">>, <<"!","=">>, <<"<">>, <<">">>, <<"<","=">>, <<">","=">>}

LogicalOps == {<<"&","&">>, <<"|","|">>}

ErrorsAt(pos) == {e \in DOMAIN semErrs : semErrs[e].pos = pos}

NoErrorAt(pos) == ErrorsAt(pos) = {}

OneErrorAt(pos, msg, args) ==
  /\ Cardinality(ErrorsAt(pos)) = 1
  /\ \A e \in ErrorsAt(pos) : semErrs[e].msg = msg /\ semErrs[e].args = args

\* the initializer of the let has type t, seen through the let's annotation
InitHasType(ls, t) ==
  IF Compatible(ls.type.path, t) THEN NoErrorAt(ls.pos)
  ELSE OneErrorAt(ls.pos, "type mismatch: expected %s, got %s", <<ls.type.path, t>>)

\* C20: the operator table of binary expressions.  Arithmetic: one error iff
\* an operand is not numeric, otherwise the left operand's type.  Comparison:
\* one error iff the operand types are not compatible, result bool.  Logical:
\* one error iff an operand is not bool, result bool.
C20_BinaryOperatorTable ==
  CheckedCrate =>
    \A ls \in LetBinaries :
      LET be == ls.init
          l  == LiteralKindType(be.left.lkind)
          r  == LiteralKindType(be.right.lkind)
      IN  /\ be.op \in ArithmeticOps =>
               IF l \in NumericTypes /\ r \in NumericTypes
               THEN NoErrorAt(be.pos) /\ InitHasType(ls, l)
               ELSE OneErrorAt(be.pos, "operands of %s must be numeric", <<be.op>>)
          /\ be.op \in ComparisonOps =>
               /\ IF Compatible(l, r) THEN NoErrorAt(be.pos)
                  ELSE OneErrorAt(be.pos, "cannot compare %s with %s", <<l, r>>)
               /\ InitHasType(ls, Str_bool)
          /\ be.op \in LogicalOps =>
               /\ IF l = Str_bool /\ r = Str_bool THEN NoErrorAt(be.pos)
                  ELSE OneErrorAt(be.pos, "operands of %s must be boolean", <<be.op>>)
               /\ InitHasType(ls, Str_bool)

\* Check has returned for the parsed source fn m(){let r:i32=1+1.5;}: numeric
\* operands of different types, no error, the result is the left type i32
C20_Witness ==
  /\ CheckedCleanParse
  /\ input = BinaryLetSource(Str_i32, <<"1">>, <<"+">>, <<"1",".","5">>)
  /\ Cardinality(LetBinaries) = 1
  /\ \A ls \in LetBinaries :
       ls.init.left.lkind = "INT" /\ ls.init.right.lkind = "FLOAT" /\ ls.init.op = <<"+">>
  /\ semErrs = <<>>

\* an expression without its positions
RECURSIVE ExprShape(_)
ExprShape(n) ==
  CASE n.kind = "Literal" -> <<"lit", n.lkind, n.val>>
    [] n.kind = "UnaryExpr" -> <<"un", n.op, ExprShape(n.expr)>>
    [] n.kind = "BinaryExpr" -> <<"bin", ExprShape(n.left), n.op, ExprShape(n.right)>>
    [] OTHER -> <<"other", n.kind>>

OperandShapes ==
  <<<< <<"lit", "IDENT", <<"a">>>>, <<"lit", "IDENT", <<"b">>>>, <<"lit", "IDENT", <<"c">>>>,
       <<"lit", "IDENT", <<"d">>>>, <<"lit", "IDENT", <<"e">>>>, <<"lit", "IDENT", <<"f">>>> >>,
    << <<"un", <<"-">>, <<"lit", "IDENT", <<"a">>>>>>, <<"lit", "INT", <<"1">>>>,
       <<"lit", "IDENT", <<"c">>>>, <<"lit", "IDENT", <<"d">>>>,
       <<"un", <<"-">>, <<"lit", "IDENT", <<"e">>>>>>, <<"lit", "IDENT", <<"f">>>> >> >>

\* (((e1 op1 e2) op2 e3) ... opk e(k+1)) for the first k operators of the case
RECURSIVE LeftNested(_, _)
LeftNested(c, k) ==
  IF k = 0 THEN OperandShapes[c.operands][1]
  ELSE <<"bin", LeftNested(c, k - 1), c.ops[k], OperandShapes[c.operands][k + 1]>>

ChainCaseOf(s) == CHOOSE c \in ChainCases : ChainSource(c) = s

MentionsSemicolon(e) ==
  \/ e.msg = "expected ';' after expression"
  \/ e.msg \in {"expected %s but got EOF", "expected %s (got '%s')"} /\ e.desc = ";"
  \/ e.msg = "expected %s (got '%s')" /\ ";" \in Range(e.tok.lit)

\* C22: a function body whose let binding lacks its ';' before the closing '}'
\* gives at least one parse error mentioning ';', and the crate still has the
\* function as an item.
C22_MissingSemicolonReported ==
  (pc = "parsed" /\ input \in MissingSemiSources) =>
    /\ ~parsed.panic
    /\ \E i \in DOMAIN parsed.errors : MentionsSemicolon(parsed.errors[i])
    /\ \E j \in DOMAIN Items :
         Items[j].kind = "Function" /\ Items[j].name = <<"m","a","i","n">>

\* ParseFile has returned for fn main() { let x = 1 } with one error, naming
\* ';', and the function main
C22_Witness ==
  /\ pc = "parsed"
  /\ input = <<"f","n"," ","m","a","i","n","(",")"," ","{"," ","l","e","t"," ","x"," ","=",
               " ","1"," ","}">>
  /\ Len(parsed.errors) = 1
  /\ parsed.errors[1].desc = ";"
  /\ Len(Items) = 1
  /\ Items[1].name = <<"m","a","i","n">>

\* C23: for a crate parsed and checked without diagnostics, a second Transform
\* call with the same crate on the same Transformer returns a module with the
\* same functions and structs, in the same order and each once, as the module
\* the first call returned.
C23_LoweringTwiceSameModule ==
  [][(pc = "lowered" /\ pc' = "loweredTwice" /\ parsed.errors = <<>> /\ semErrs = <<>>) =>
       /\ irModule'.functions = irModule.functions
       /\ irModule'.structs = irModule.structs]_vars

\* the target name listed for each known source type name
GoTypeNames ==
  {<<<<"i","8">>, <<"i","n","t","8">>>>,
   <<<<"i","1","6">>, <<"i","n","t","1","6">>>>,
   <<<<"i","3","2">>, <<"i","n","t">>>>,
   <<<<"i","6","4">>, <<"i","n","t","6","4">>>>,
   <<<<"u","8">>, <<"u","i","n","t","8">>>>,
   <<<<"u","1","6">>, <<"u","i","n","t","1","6">>>>,
   <<<<"u","3","2">>, <<"u","i","n","t","3","2">>>>,
   <<<<"u","6","4">>, <<"u","i","n","t","6","4">>>>,
   <<<<"f","3","2">>, <<"f","l","o","a","t","3","2">>>>,
   <<<<"f","6","4">>, <<"f","l","o","a","t","6","4">>>>,
   <<<<"b","o","o","l">>, <<"b","o","o","l">>>>,
   <<<<"s","t","r">>, <<"s","t","r","i","n","g">>>>,
   <<<<"S","t","r","i","n","g">>, <<"s","t","r","i","n","g">>>>,
   <<Str_unit, <<>>>>}

ListedGoName(T) ==
  IF \E p \in GoTypeNames : p[1] = T
  THEN (CHOOSE p \in GoTypeNames : p[1] = T)[2]
  ELSE T

\* C24: lowering maps i8, i16, i32, i64, u8, u16, u32, u64, f32, f64, bool,
\* str, String and () to int8, int16, int, int64, uint8, uint16, uint32,
\* uint64, float32, float64, bool, string, string and the empty name, and
\* leaves every other type name unchanged.
C24_TypeNamesLowered ==
  \A T \in KnownTypeNames \cup OtherTypeNames :
    (pc = "lowered" /\ input = TypeSource(T)) =>
      /\ ~irModule.panic
      /\ Len(irModule.functions) = 1
      /\ irModule.functions[1].params[1].type.name = ListedGoName(T)
      /\ irModule.functions[1].returnType.name = ListedGoName(Items[1].ret.path)

\* Transform has returned for fn f(a:i32){}: parameter type int, and the
\* absent return type () lowered to the empty name
C24_Witness ==
  /\ pc = "lowered"
  /\ input = TypeSource(Str_i32)
  /\ Items[1].ret.path = Str_unit
  /\ irModule.functions[1].params[1].type.name = <<"i","n","t">>
  /\ irModule.functions[1].returnType.name = <<>>

ReturnPrefix == <<"\t","r","e","t","u","r","n">>

BeginsWithReturn(line) ==
  Len(line) >= Len(ReturnPrefix) /\ SubSeq(line, 1, Len(ReturnPrefix)) = ReturnPrefix

HasNoReturnStmt(fn) == \A i \in DOMAIN fn.body : fn.body[i].kind # "Return"

\* C25: Generate completes for every IR function without a Return statement,
\* whatever the length of its body.  With a non-empty mapped return type a
\* final ExpressionStatement is emitted as return <expr>, right before the
\* closing brace; with an empty mapped return type no return is emitted.
C25_FinalExpressionReturned ==
  (pc = "generated" /\ \A i \in DOMAIN irModule.functions : HasNoReturnStmt(irModule.functions[i])) =>
    /\ ~goCode.panic
    /\ (Len(irModule.functions) = 1 /\ irModule.structs = <<>>) =>
         LET fn == irModule.functions[1]
             n  == Len(goCode.lines)
         IN  /\ goCode.lines[n - 1] = <<"}">>
             /\ (NonVoid(fn) /\ Len(fn.body) > 0 /\ fn.body[Len(fn.body)].kind = "ExprStmt")
                  => BeginsWithReturn(goCode.lines[n - 2])
             /\ ~NonVoid(fn) => \A k \in 1..n : ~BeginsWithReturn(goCode.lines[k])

\* the input begins with b, an apostrophe, one character and an apostrophe
BeginsWithByteChar(s) ==
  /\ Len(s) >= 4
  /\ s[1] = "b" /\ s[2] = "'" /\ s[4] = "'"
  /\ s[3] \notin {"'", "\\", "\n"}

\* C26: an input beginning with b'x' lexes without error; its first token is a
\* typed literal of subtype CHAR whose literal is b'x', and what follows it
\* lexes as it does on its own.
C26_ByteCharLiteral ==
  (pc = "lexed" /\ BeginsWithByteChar(input)) =>
    /\ ~lexOut.panic
    /\ lexOut.err = NoErr
    /\ Len(lexOut.tokens) >= 2
    /\ lexOut.tokens[1].type = "TYPE"
    /\ lexOut.tokens[1].subtype = "CHAR"
    /\ lexOut.tokens[1].lit = SubSeq(input, 1, 4)
    /\ Shapes(Tail(lexOut.tokens))
         = Shapes(Lex(SubSeq(input, 5, Len(input)), Len(input) + 1).tokens)

\* C27: while lexing, the index the literals are cut at never exceeds the
\* length of the input, and Lex never fails on a slice past the rune buffer:
\* it returns tokens or an error for every input.
C27_CursorWithinInput ==
  /\ lx.pos <= Len(input)
  /\ ~lx.panic
  /\ ~lexOut.panic

\* every Binary and Unary node of the IR expression has its operands and type
RECURSIVE OperandsPresent(_)
OperandsPresent(e) ==
  CASE e.kind = "BinaryExpr" ->
         /\ ~IsNil(e.left) /\ ~IsNil(e.right) /\ e.type # Nil
         /\ OperandsPresent(e.left) /\ OperandsPresent(e.right)
    [] e.kind = "UnaryExpr" ->
         ~IsNil(e.expr) /\ e.type # Nil /\ OperandsPresent(e.expr)
    [] e.kind = "CallExpr" -> \A k \in DOMAIN e.args : OperandsPresent(e.args[k])
    [] OTHER -> TRUE

StmtOperandsPresent(st) ==
  CASE st.kind = "Declaration" -> OperandsPresent(st.initValue)
    [] st.kind = "ExprStmt" -> OperandsPresent(st.expr)
    [] OTHER -> TRUE

\* C28: for a crate parsed without parse errors and checked without semantic
\* diagnostics, Transform completes, and every Binary and Unary node of the
\* module has non-nil operands and a non-nil type.
C28_LoweringOfCleanCrate ==
  (pc = "lowered" /\ Len(lexOut.tokens) > 0 /\ parsed.errors = <<>> /\ semErrs = <<>>) =>
    /\ ~irModule.panic
    /\ \A i \in DOMAIN irModule.functions :
         \A k \in DOMAIN irModule.functions[i].body :
           StmtOperandsPresent(irModule.functions[i].body[k])

\* C29: recovery from a syntax error in a function body does not consume the
\* body's closing brace: the well-formed function that follows the erroneous
\* one is parsed as an item of the crate, after the erroneous function.
C29_ItemAfterErrorKept ==
  (pc = "parsed" /\ input \in ErrorThenItemSources) =>
    /\ ~parsed.panic
    /\ Len(Items) = 2
    /\ Items[1].kind = "Function" /\ Items[1].name = <<"m">>
    /\ Items[2].kind = "Function" /\ Items[2].name = <<"g">>

\* C30: Lex resets its scanning state at the start of each call: a second call
\* on the same Lexer returns what a call on a new Lexer returns for the same
\* input, the line and column of every token included.
C30_LexIndependentOfEarlierCalls ==
  pc = "relexed" => lexOut = Lex(input, lx.cap)

====
